---- MODULE Spec2Model ----
(***************************************************************************)
(* db-ui: the database abstraction layer (three engine adapters and the    *)
(* module-level PostgreSQL functions of lib/db.ts), the connection         *)
(* factory, the filter/sort parameter parsing and the row normalisation.   *)
(*                                                                         *)
(* The module holds several specifications over one set of variables:      *)
(*   Spec          the adapter operations, one call at a time              *)
(*   SpecFactory   getDatabaseConnection / closeDatabaseConnection callers *)
(*   SpecConvert   convertRowToStrings applied to driver rows              *)
(*   SpecUrl       handleSubmit serialisation and search-param parsing     *)
(*   SpecQuery     the SQL text getTableData builds from a query string    *)
(*   SpecCatalog   getTables, the metadata operations, table addressing    *)
(*   SpecMssql     concurrent operations on one MSSQLConnection            *)
(*   SpecConfig    createDatabaseConfig over process.env                   *)
(*   SpecFormat    formatSchemaForAI over introspected schemas             *)
(*   SpecPages     the pages of getTableData over one table                *)
(*   SpecConcurrent  the write operations of two clients, interleaved      *)
(*   SpecSqlPage   the SQL page: submissions and responses                 *)
(* Each specification keeps the variables of the other parts at rest.      *)
(***************************************************************************)
EXTENDS Integers, Sequences, FiniteSets, TLC

VARIABLES
    cvAdapter,      \* convertRowToStrings: the adapter whose method runs
    cvRow,          \* convertRowToStrings: the driver row handed in
    cvOut,          \* convertRowToStrings: the TableDataRow produced
    cvDone,         \* convertRowToStrings: whether the method has run
    env,            \* process.env: which host variables are present
    dbConnection,   \* factory: the memoized connection (0 is null)
    connections,    \* factory: the connections created so far, by id (their engine)
    closing,        \* factory: the connections on which disconnect() has been started
    fpc,            \* factory: each caller's position
    flocal,         \* factory: each caller's local (the config type, the connection being closed)
    fgot,           \* factory: the connection each caller was handed (0 is none)
    sinceClose,     \* history: the connections created since the last completed disconnect
    pendingFilters, \* TablePageClient: useState pendingFilters
    pendingSorts,   \* TablePageClient: useState pendingSorts
    upc,            \* navigation: "editing", "pushed" (router.push done), "parsed"
    urlParams,      \* the URLSearchParams handleSubmit pushed (entries in order)
    parsedFilters,  \* parseFiltersFromSearchParams' result for the pushed parameters
    parsedSorts,    \* parseSortsFromSearchParams' result for the pushed parameters
    adapter,        \* database layer: the implementation in use (an adapter, or lib/db.ts)
    dbUp,           \* database server: reachable and answering
    connOpen,       \* the adapter's pool / connection is open (pool.connected for MSSQL)
    checkedOut,     \* pg pool: clients checked out and not yet released
    table,          \* database server: the rows of the table
    nextId,         \* database server: the identity / auto-increment counter of the table
    pc,             \* each client's position in the operation it is running
    call,           \* each client's operation: arguments and locals
    res,            \* each client's outcome: the value returned or the error thrown
    deletedPks,     \* history: primary keys whose deleteTableRow has returned a row
    qImpl,          \* query building: the implementation whose getTableData builds the SQL
    qQuery,         \* query building: the clauses built (conditions, ORDER BY items, table)
    qText,          \* query building: the SQL text of the data query
    qValues,        \* query building: the parameters bound to the data query
    mImpl,          \* catalog: the implementation whose operations run
    currentDb,      \* catalog: the database the MySQL connection was opened on
    catalog,        \* database server: the tables and views, by schema and name
    fkeys,          \* database server: the foreign-key constraints
    mName,          \* catalog: the tableName argument the operations are called with
    mAddr,          \* history: the relations the last data / metadata operation addressed
    mOp,            \* catalog: the operation that ran last
    mOut,           \* catalog: what that operation returned
    msPool,         \* MSSQL pool: "closed", "connecting", "connected" (pool.connected)
    msPc,           \* MSSQL: each caller's position in ensureConnected
    msStarted,      \* history: how many times pool.connect() has been called
    cfgEnv,         \* createDatabaseConfig: process.env, the value of each variable
    cfgOut,         \* createDatabaseConfig: the DatabaseConfig returned
    fmtSchemas,     \* formatSchemaForAI: the TableSchema[] handed in
    fmtText,        \* formatSchemaForAI: the text returned, line by line
    pgTable,        \* paging: the rows of the table (fixed)
    pgArgs,         \* paging: implementation, filters, sorts and pageSize (fixed)
    pgRows,         \* paging: the rows getTableData returned, by page number
    isRunning,      \* SQLQueryClient: useState isRunning
    result,         \* SQLQueryClient: useState result (the query it answers, 0 is null)
    currentPage,    \* SQLQueryClient: useState currentPage
    inflight,       \* SQL page: the fetches sent and not yet answered
    submitted       \* history: how many queries have been submitted

cvVars == <<cvAdapter, cvRow, cvOut, cvDone>>
facVars == <<env, dbConnection, connections, closing, fpc, flocal, fgot, sinceClose>>
urlVars == <<pendingFilters, pendingSorts, upc, urlParams, parsedFilters, parsedSorts>>
dbVars == <<adapter, dbUp, connOpen, checkedOut, table, nextId, pc, call, res, deletedPks>>
sqlVars == <<qImpl, qQuery, qText, qValues>>
catVars == <<mImpl, currentDb, catalog, fkeys, mName, mAddr, mOp, mOut>>
msVars == <<msPool, msPc, msStarted>>
cfgVars == <<cfgEnv, cfgOut>>
fmtVars == <<fmtSchemas, fmtText>>
pgVars == <<pgTable, pgArgs, pgRows>>
uiVars == <<isRunning, result, currentPage, inflight, submitted>>

vars == <<cvVars, facVars, urlVars, dbVars, sqlVars, catVars, msVars, cfgVars, fmtVars, pgVars, uiVars>>

\* The variables each part leaves alone.
othersOfCv == <<facVars, urlVars, dbVars, sqlVars, catVars, msVars, cfgVars, fmtVars, pgVars, uiVars>>
othersOfFac == <<cvVars, urlVars, dbVars, sqlVars, catVars, msVars, cfgVars, fmtVars, pgVars, uiVars>>
othersOfUrl == <<cvVars, facVars, dbVars, sqlVars, catVars, msVars, cfgVars, fmtVars, pgVars, uiVars>>
othersOfDb == <<cvVars, facVars, urlVars, sqlVars, catVars, msVars, cfgVars, fmtVars, pgVars, uiVars>>
othersOfSql == <<cvVars, facVars, dbVars, catVars, msVars, cfgVars, fmtVars, pgVars, uiVars>>
othersOfCat == <<cvVars, facVars, urlVars, dbVars, sqlVars, msVars, cfgVars, fmtVars, pgVars, uiVars>>
othersOfMs == <<cvVars, facVars, urlVars, dbVars, sqlVars, catVars, cfgVars, fmtVars, pgVars, uiVars>>
othersOfCfg == <<cvVars, facVars, urlVars, dbVars, sqlVars, catVars, msVars, fmtVars, pgVars, uiVars>>
othersOfFmt == <<cvVars, facVars, urlVars, dbVars, sqlVars, catVars, msVars, cfgVars, pgVars, uiVars>>
othersOfPg == <<cvVars, facVars, urlVars, dbVars, sqlVars, catVars, msVars, cfgVars, fmtVars, uiVars>>
othersOfUi == <<cvVars, facVars, urlVars, dbVars, sqlVars, catVars, msVars, cfgVars, fmtVars, pgVars>>

(***************************************************************************)
(* JavaScript values as the drivers hand them over.  A value is a record   *)
(* [k, s]: k is the JavaScript kind and s the text that identifies the     *)
(* value within its kind (a boolean's literal, a number's decimal text, a  *)
(* Date's ISO-8601 text, an object's JSON text, a string's characters).    *)
(***************************************************************************)
JSVal(k, s) == [k |-> k, s |-> s]

JSNull == JSVal("null", "")
JSUndefined == JSVal("undefined", "")
JSStr(s) == JSVal("string", s)
JSNum(s) == JSVal("number", s)

Adapters == {"postgresql", "mysql", "mssql"}

\* Date.prototype.toString(): the localized rendering String(date) produces.
DateToString(iso) ==
    IF iso = "2024-01-15T10:30:00.000Z"
    THEN "Mon Jan 15 2024 10:30:00 GMT+0000 (Coordinated Universal Time)"
    ELSE "Invalid Date"

\* String(value) of JavaScript.
JsString(v) ==
    CASE v.k = "null" -> "null"
      [] v.k = "undefined" -> "undefined"
      [] v.k = "date" -> DateToString(v.s)
      [] v.k = "object" -> "[object Object]"
      [] OTHER -> v.s

\* Date.prototype.toISOString().
ToISOString(v) == v.s

\* JSON.stringify(value) of an object.
JsonStringify(v) == v.s

\* PostgreSQLConnection.convertRowToStrings, one value.
PgConvertValue(v) ==
    IF v.k = "null" \/ v.k = "undefined" THEN ""
    ELSE IF v.k = "boolean" THEN (IF v.s = "true" THEN "true" ELSE "false")
    ELSE IF v.k = "date" THEN ToISOString(v)
    ELSE IF v.k = "number" THEN JsString(v)
    ELSE IF v.k = "object" THEN JsonStringify(v)
    ELSE JsString(v)

\* MySQLConnection.convertRowToStrings, one value (undefined is not tested for).
MySQLConvertValue(v) ==
    IF v.k = "null" THEN ""
    ELSE IF v.k = "boolean" THEN (IF v.s = "true" THEN "true" ELSE "false")
    ELSE IF v.k = "date" THEN ToISOString(v)
    ELSE IF v.k = "number" THEN JsString(v)
    ELSE IF v.k = "object" THEN JsonStringify(v)
    ELSE JsString(v)

\* MSSQLConnection.convertRowToStrings, one value: no boolean and no object branch.
MSSQLConvertValue(v) ==
    IF v.k = "null" \/ v.k = "undefined" THEN ""
    ELSE IF v.k = "date" THEN ToISOString(v)
    ELSE JsString(v)

ConvertValue(a, v) ==
    CASE a = "postgresql" -> PgConvertValue(v)
      [] a = "mysql" -> MySQLConvertValue(v)
      [] a = "mssql" -> MSSQLConvertValue(v)

\* convertRowToStrings: every entry of the row, keys kept.
convertRowToStrings(a, row) ==
    [key \in DOMAIN row |-> JSStr(ConvertValue(a, row[key]))]

\* convertRowsToStrings: rows.map(convertRowToStrings).
convertRowsToStrings(a, rows) ==
    [i \in DOMAIN rows |-> convertRowToStrings(a, rows[i])]

(***************************************************************************)
(* SpecConvert: convertRowToStrings on the rows a driver can hand over.    *)
(***************************************************************************)
DriverValues ==
    { JSNull, JSUndefined,
      JSVal("boolean", "true"), JSVal("boolean", "false"),
      JSVal("date", "2024-01-15T10:30:00.000Z"),
      JSNum("30"),
      JSVal("object", "{\"theme\":\"dark\"}"),
      JSStr("X") }

ConvertCols == {"a", "b"}

\* The clients of the database layer (requests running an operation).
Clients == {"c1", "c2"}

\* A call record with nothing in it, and an outcome not yet there.  The field
\* before keeps the table contents at the time a write operation was called.
NoCall ==
    [op |-> "-", page |-> 0, pageSize |-> 0, filters |-> <<>>, sorts |-> <<>>,
     pk |-> <<>>, data |-> <<>>, sql |-> "-", client |-> FALSE,
     count |-> 0, countQuery |-> "-", dataQuery |-> "-",
     selected |-> <<>>, removed |-> {}, insertId |-> 0, before |-> {}]

NoResult ==
    [kind |-> "pending", rows |-> <<>>, totalCount |-> 0, page |-> 0, pageSize |-> 0,
     totalPages |-> 0, error |-> "", success |-> FALSE]

\* No query built.
sqlIdle ==
    /\ qImpl = "postgresql"
    /\ qQuery = <<>>
    /\ qText = ""
    /\ qValues = <<>>

\* The catalog operations at rest.
catIdle ==
    /\ mImpl = "postgresql"
    /\ currentDb = <<>>
    /\ catalog = {}
    /\ fkeys = {}
    /\ mName = <<>>
    /\ mAddr = [data |-> {}, metadata |-> {}]
    /\ mOp = "-"
    /\ mOut = <<>>

\* createDatabaseConfig not called.
cfgIdle ==
    /\ cfgEnv = <<>>
    /\ cfgOut = <<>>

\* formatSchemaForAI not called.
fmtIdle ==
    /\ fmtSchemas = <<>>
    /\ fmtText = <<>>

\* No page fetched.
pgIdle ==
    /\ pgTable = {}
    /\ pgArgs = <<>>
    /\ pgRows = <<>>

\* The SQL page as mounted.
uiIdle ==
    /\ isRunning = FALSE
    /\ result = 0
    /\ currentPage = 1
    /\ inflight = {}
    /\ submitted = 0

\* The MSSQL pool with no caller.
msIdle ==
    /\ msPool = "closed"
    /\ msPc = [c \in {"m1", "m2", "m3"} |-> "idle"]
    /\ msStarted = 0

\* The database layer at rest.
dbIdle ==
    /\ adapter = "postgresql"
    /\ dbUp = TRUE
    /\ connOpen = TRUE
    /\ checkedOut = 0
    /\ table = {}
    /\ nextId = 1
    /\ pc = [c \in Clients |-> "idle"]
    /\ call = [c \in Clients |-> NoCall]
    /\ res = [c \in Clients |-> NoResult]
    /\ deletedPks = {}

\* The concurrent callers of the factory (requests served by the process).
Callers == {"r1", "r2"}

\* The factory at rest (no caller, no connection).
facIdle ==
    /\ env = [POSTGRES_HOST |-> FALSE, MSSQL_HOST |-> FALSE, MYSQL_HOST |-> FALSE]
    /\ dbConnection = 0
    /\ connections = <<>>
    /\ closing = {}
    /\ fpc = [c \in Callers |-> "idle"]
    /\ flocal = [c \in Callers |-> "-"]
    /\ fgot = [c \in Callers |-> 0]
    /\ sinceClose = {}

\* The table page with nothing pending and nothing pushed.
urlIdle ==
    /\ pendingFilters = <<>>
    /\ pendingSorts = <<>>
    /\ upc = "editing"
    /\ urlParams = <<>>
    /\ parsedFilters = <<>>
    /\ parsedSorts = <<>>

cvIdle ==
    /\ cvAdapter = "postgresql"
    /\ cvRow = [key \in ConvertCols |-> JSNull]
    /\ cvOut = [key \in ConvertCols |-> JSNull]
    /\ cvDone = FALSE

InitConvert ==
    /\ cvAdapter \in Adapters
    /\ cvRow \in [ConvertCols -> DriverValues]
    /\ cvOut = [key \in ConvertCols |-> JSNull]
    /\ cvDone = FALSE
    /\ facIdle
    /\ urlIdle
    /\ dbIdle
    /\ sqlIdle
    /\ catIdle
    /\ msIdle
    /\ cfgIdle
    /\ fmtIdle
    /\ pgIdle
    /\ uiIdle

ConvertRow ==
    /\ ~cvDone
    /\ cvOut' = convertRowToStrings(cvAdapter, cvRow)
    /\ cvDone' = TRUE
    /\ UNCHANGED <<cvAdapter, cvRow>>
    /\ UNCHANGED othersOfCv

NextConvert == ConvertRow

SpecConvert == InitConvert /\ [][NextConvert]_vars

\* C4: every value leaving convertRowToStrings is a string; null becomes "",
\* a boolean "true"/"false", a date its ISO-8601 text and an object its JSON
\* serialization (never "[object Object]"), in all three adapters.
C4_AllValuesNormalized ==
    cvDone =>
        \A key \in DOMAIN cvRow :
            /\ cvOut[key].k = "string"
            /\ (cvRow[key].k = "null" => cvOut[key].s = "")
            /\ (cvRow[key].k = "boolean" => cvOut[key].s = cvRow[key].s)
            /\ (cvRow[key].k = "date" => cvOut[key].s = cvRow[key].s)
            /\ (cvRow[key].k = "object" =>
                    /\ cvOut[key].s = cvRow[key].s
                    /\ cvOut[key].s # "[object Object]")

(***************************************************************************)
(* SpecFactory: the connection factory.  getDatabaseConnection and         *)
(* closeDatabaseConnection are async functions: each runs to its await,    *)
(* and other callers run before the awaited promise resolves.              *)
(***************************************************************************)
MaxConn == 3

\* createDatabaseConfig: the engine chosen from the host variables.
createDatabaseConfig(e) ==
    IF e.POSTGRES_HOST THEN "postgresql"
    ELSE IF e.MSSQL_HOST THEN "mssql"
    ELSE IF e.MYSQL_HOST THEN "mysql"
    ELSE "postgresql"

InitFactory ==
    /\ env \in [{"POSTGRES_HOST", "MSSQL_HOST", "MYSQL_HOST"} -> BOOLEAN]
    /\ dbConnection = 0
    /\ connections = <<>>
    /\ closing = {}
    /\ fpc = [c \in Callers |-> "idle"]
    /\ flocal = [c \in Callers |-> "-"]
    /\ fgot = [c \in Callers |-> 0]
    /\ sinceClose = {}
    /\ cvIdle
    /\ urlIdle
    /\ dbIdle
    /\ sqlIdle
    /\ catIdle
    /\ msIdle
    /\ cfgIdle
    /\ fmtIdle
    /\ pgIdle
    /\ uiIdle

\* getDatabaseConnection up to its await: the memoized connection is returned,
\* or createConnection(config) is started.
GetDatabaseConnection(c) ==
    /\ fpc[c] = "idle"
    /\ IF dbConnection # 0
       THEN /\ fgot' = [fgot EXCEPT ![c] = dbConnection]
            /\ fpc' = [fpc EXCEPT ![c] = "got"]
            /\ UNCHANGED flocal
       ELSE /\ Len(connections) < MaxConn
            /\ flocal' = [flocal EXCEPT ![c] = createDatabaseConfig(env)]
            /\ fpc' = [fpc EXCEPT ![c] = "creating"]
            /\ UNCHANGED fgot
    /\ UNCHANGED <<env, dbConnection, connections, closing, sinceClose>>
    /\ UNCHANGED othersOfFac

\* adapter.connect(config) resolves: dbConnection is assigned and returned.
ConnectionCreated(c) ==
    /\ fpc[c] = "creating"
    /\ Len(connections) < MaxConn
    /\ connections' = Append(connections, flocal[c])
    /\ dbConnection' = Len(connections) + 1
    /\ sinceClose' = sinceClose \cup {Len(connections) + 1}
    /\ fgot' = [fgot EXCEPT ![c] = Len(connections) + 1]
    /\ fpc' = [fpc EXCEPT ![c] = "got"]
    /\ flocal' = [flocal EXCEPT ![c] = "-"]
    /\ UNCHANGED <<env, closing>>
    /\ UNCHANGED othersOfFac

\* adapter.connect(config) rejects (MySQL createConnection, the MSSQL test query):
\* the rejection propagates and dbConnection stays null.
ConnectionFailed(c) ==
    /\ fpc[c] = "creating"
    /\ flocal[c] \in {"mssql", "mysql"}
    /\ fpc' = [fpc EXCEPT ![c] = "threw"]
    /\ flocal' = [flocal EXCEPT ![c] = "-"]
    /\ UNCHANGED <<env, dbConnection, connections, closing, fgot, sinceClose>>
    /\ UNCHANGED othersOfFac

\* closeDatabaseConnection up to its await: disconnect() is started on the
\* memoized connection, if there is one.
CloseDatabaseConnection(c) ==
    /\ fpc[c] = "idle"
    /\ IF dbConnection # 0
       THEN /\ closing' = closing \cup {dbConnection}
            /\ fpc' = [fpc EXCEPT ![c] = "closing"]
       ELSE /\ fpc' = [fpc EXCEPT ![c] = "closed"]
            /\ UNCHANGED closing
    /\ UNCHANGED <<env, dbConnection, connections, flocal, fgot, sinceClose>>
    /\ UNCHANGED othersOfFac

\* disconnect() resolves: dbConnection = null.
Disconnected(c) ==
    /\ fpc[c] = "closing"
    /\ dbConnection' = 0
    /\ sinceClose' = {}
    /\ fpc' = [fpc EXCEPT ![c] = "closed"]
    /\ UNCHANGED <<env, connections, closing, flocal, fgot>>
    /\ UNCHANGED othersOfFac

\* The caller's promise has settled and the caller goes on; it may call again.
CallerDone(c) ==
    /\ fpc[c] \in {"got", "threw", "closed"}
    /\ fpc' = [fpc EXCEPT ![c] = "idle"]
    /\ fgot' = [fgot EXCEPT ![c] = 0]
    /\ UNCHANGED <<env, dbConnection, connections, closing, flocal, sinceClose>>
    /\ UNCHANGED othersOfFac

NextFactory ==
    \E c \in Callers :
        \/ GetDatabaseConnection(c)
        \/ ConnectionCreated(c)
        \/ ConnectionFailed(c)
        \/ CloseDatabaseConnection(c)
        \/ Disconnected(c)
        \/ CallerDone(c)

SpecFactory == InitFactory /\ [][NextFactory]_vars

\* C5: under any interleaving of getDatabaseConnection calls, at most one
\* connection is created between two explicit disconnects, and every caller
\* holding a connection of that period holds the same one.
C5_SingleConnection ==
    /\ Cardinality(sinceClose) <= 1
    /\ \A c, d \in Callers :
        (fpc[c] = "got" /\ fpc[d] = "got" /\ fgot[c] \in sinceClose /\ fgot[d] \in sinceClose)
            => fgot[c] = fgot[d]

(***************************************************************************)
(* SpecUrl: the table page's pending filters and sorts, handleSubmit's     *)
(* bracket-notation parameters and their parsing on the server.  Strings   *)
(* are sequences of characters.  params.toString() and the URL parsing of  *)
(* the platform between them carry the entry list over unchanged.          *)
(***************************************************************************)
MaxFilters == 2
MaxSorts == 2

ColumnNames == { <<"a","g","e">>, <<"n","a","m","e">> }
OperatorNames == { <<"=">>, <<"L","I","K","E">> }
FilterValues == { <<>>, <<" ">>, <<"a",":","b">> }
Directions == { <<"a","s","c">>, <<"d","e","s","c">> }

\* columns[0] of FilterBar / SortBar.
FirstColumn == <<"a","g","e">>

Whitespace == {" "}

\* String.prototype.trim().
RECURSIVE TrimLeft(_)
TrimLeft(s) ==
    IF s # <<>> /\ Head(s) \in Whitespace THEN TrimLeft(Tail(s)) ELSE s

RECURSIVE TrimRight(_)
TrimRight(s) ==
    IF s # <<>> /\ s[Len(s)] \in Whitespace
    THEN TrimRight(SubSeq(s, 1, Len(s) - 1))
    ELSE s

Trim(s) == TrimRight(TrimLeft(s))

\* value.split(":"): the parts between the colons (at least one part).
RECURSIVE SplitColon(_, _)
SplitColon(s, part) ==
    IF s = <<>> THEN <<part>>
    ELSE IF Head(s) = ":" THEN <<part>> \o SplitColon(Tail(s), <<>>)
    ELSE SplitColon(Tail(s), Append(part, Head(s)))

\* The first part alone.
JoinPlain(parts) ==
    IF Len(parts) = 0 THEN <<>>
    ELSE [i \in 1 .. Len(parts[1]) |-> parts[1][i]]

\* parts.join(":").
RECURSIVE JoinColon(_)
JoinColon(parts) ==
    IF parts = <<>> THEN <<>>
    ELSE IF Len(parts) = 1 THEN parts[1]
    ELSE parts[1] \o <<":">> \o JoinColon(Tail(parts))

FiltersPrefix == <<"f","i","l","t","e","r","s","[">>
SortPrefix == <<"s","o","r","t","[">>

\* key.match(/^prefix(.+)\]$/): the captured column, <<>> when there is no match.
MatchBracket(prefix, key) ==
    IF /\ Len(key) >= Len(prefix) + 2
       /\ SubSeq(key, 1, Len(prefix)) = prefix
       /\ key[Len(key)] = "]"
    THEN SubSeq(key, Len(prefix) + 1, Len(key) - 1)
    ELSE <<>>

\* URLSearchParams.set(name, value): the first entry named name takes the value
\* and the other entries of that name are removed; appended when there is none.
RECURSIVE DropNamed(_, _)
DropNamed(params, name) ==
    IF params = <<>> THEN <<>>
    ELSE IF Head(params).key = name THEN DropNamed(Tail(params), name)
    ELSE <<Head(params)>> \o DropNamed(Tail(params), name)

RECURSIVE ParamsSet(_, _, _)
ParamsSet(params, name, value) ==
    IF params = <<>> THEN << [key |-> name, value |-> value] >>
    ELSE IF Head(params).key = name
         THEN << [key |-> name, value |-> value] >> \o DropNamed(Tail(params), name)
         ELSE <<Head(params)>> \o ParamsSet(Tail(params), name, value)

\* handleSubmit: pendingFilters.forEach(filter => if (filter.value.trim()) params.set(...)).
RECURSIVE SetFilters(_, _)
SetFilters(params, filters) ==
    IF filters = <<>> THEN params
    ELSE SetFilters(
            IF Trim(Head(filters).value) # <<>>
            THEN ParamsSet(params,
                           FiltersPrefix \o Head(filters).column \o <<"]">>,
                           Head(filters).operator \o <<":">> \o Head(filters).value)
            ELSE params,
            Tail(filters))

\* handleSubmit: pendingSorts.forEach(sort => params.set(`sort[column]`, direction)).
RECURSIVE SetSorts(_, _)
SetSorts(params, sorts) ==
    IF sorts = <<>> THEN params
    ELSE SetSorts(ParamsSet(params,
                            SortPrefix \o Head(sorts).column \o <<"]">>,
                            Head(sorts).direction),
                  Tail(sorts))

\* handleSubmit: the parameters pushed (page and pageSize are preserved).
SubmitParams(filters, sorts) ==
    ParamsSet(
        ParamsSet(SetSorts(SetFilters(<<>>, filters), sorts),
                  <<"p","a","g","e">>, <<"1">>),
        <<"p","a","g","e","S","i","z","e">>, <<"1","0">>)

\* The searchParams record the page receives: one key per name, in the order of
\* first appearance, with all the values of that name.
RECURSIVE ValuesNamed(_, _)
ValuesNamed(params, name) ==
    IF params = <<>> THEN <<>>
    ELSE IF Head(params).key = name
         THEN <<Head(params).value>> \o ValuesNamed(Tail(params), name)
         ELSE ValuesNamed(Tail(params), name)

RECURSIVE ToRecord(_)
ToRecord(params) ==
    IF params = <<>> THEN <<>>
    ELSE << [key |-> Head(params).key, values |-> ValuesNamed(params, Head(params).key)] >>
         \o ToRecord(DropNamed(Tail(params), Head(params).key))

\* Object.entries(searchParams).forEach: every value of every key is appended.
RECURSIVE FromRecord(_)
FromRecord(rec) ==
    IF rec = <<>> THEN <<>>
    ELSE [i \in 1..Len(Head(rec).values) |->
            [key |-> Head(rec).key, value |-> Head(rec).values[i]]]
         \o FromRecord(Tail(rec))

\* parseFiltersFromSearchParams.
RECURSIVE FiltersOf(_)
FiltersOf(params) ==
    IF params = <<>> THEN <<>>
    ELSE LET column == MatchBracket(FiltersPrefix, Head(params).key)
             parts == SplitColon(Head(params).value, <<>>)
             operator == parts[1]
             actualValue == JoinColon(Tail(parts))
         IN  (IF column # <<>> /\ Trim(actualValue) # <<>>
              THEN << [column |-> column, operator |-> operator, value |-> actualValue] >>
              ELSE <<>>)
             \o FiltersOf(Tail(params))

parseFiltersFromSearchParams(searchParams) == FiltersOf(FromRecord(searchParams))

\* parseSortsFromSearchParams.
RECURSIVE SortsOf(_)
SortsOf(params) ==
    IF params = <<>> THEN <<>>
    ELSE LET column == MatchBracket(SortPrefix, Head(params).key)
         IN  (IF /\ column # <<>>
                 /\ Head(params).value \in { <<"a","s","c">>, <<"d","e","s","c">> }
              THEN << [column |-> column, direction |-> Head(params).value] >>
              ELSE <<>>)
             \o SortsOf(Tail(params))

parseSortsFromSearchParams(searchParams) == SortsOf(FromRecord(searchParams))

InitUrl ==
    /\ urlIdle
    /\ cvIdle
    /\ facIdle
    /\ dbIdle
    /\ sqlIdle
    /\ catIdle
    /\ msIdle
    /\ cfgIdle
    /\ fmtIdle
    /\ pgIdle
    /\ uiIdle

\* FilterBar.addFilter.
AddFilter ==
    /\ upc = "editing"
    /\ Len(pendingFilters) < MaxFilters
    /\ pendingFilters' = Append(pendingFilters,
            [column |-> FirstColumn, operator |-> <<"=">>, value |-> <<>>])
    /\ UNCHANGED <<pendingSorts, upc, urlParams, parsedFilters, parsedSorts>>
    /\ UNCHANGED othersOfUrl

\* FilterBar.removeFilter(index).
RemoveFilter ==
    /\ upc = "editing"
    /\ \E index \in DOMAIN pendingFilters :
        pendingFilters' = SubSeq(pendingFilters, 1, index - 1)
                          \o SubSeq(pendingFilters, index + 1, Len(pendingFilters))
    /\ UNCHANGED <<pendingSorts, upc, urlParams, parsedFilters, parsedSorts>>
    /\ UNCHANGED othersOfUrl

\* FilterBar.updateFilter(index, field, value).
UpdateFilter ==
    /\ upc = "editing"
    /\ \E index \in DOMAIN pendingFilters :
        \/ \E v \in ColumnNames :
            pendingFilters' = [pendingFilters EXCEPT ![index].column = v]
        \/ \E v \in OperatorNames :
            pendingFilters' = [pendingFilters EXCEPT ![index].operator = v]
        \/ \E v \in FilterValues :
            pendingFilters' = [pendingFilters EXCEPT ![index].value = v]
    /\ UNCHANGED <<pendingSorts, upc, urlParams, parsedFilters, parsedSorts>>
    /\ UNCHANGED othersOfUrl

\* SortBar.addSort.
AddSort ==
    /\ upc = "editing"
    /\ Len(pendingSorts) < MaxSorts
    /\ pendingSorts' = Append(pendingSorts,
            [column |-> FirstColumn, direction |-> <<"a","s","c">>])
    /\ UNCHANGED <<pendingFilters, upc, urlParams, parsedFilters, parsedSorts>>
    /\ UNCHANGED othersOfUrl

\* SortBar.removeSort(index).
RemoveSort ==
    /\ upc = "editing"
    /\ \E index \in DOMAIN pendingSorts :
        pendingSorts' = SubSeq(pendingSorts, 1, index - 1)
                        \o SubSeq(pendingSorts, index + 1, Len(pendingSorts))
    /\ UNCHANGED <<pendingFilters, upc, urlParams, parsedFilters, parsedSorts>>
    /\ UNCHANGED othersOfUrl

\* SortBar.updateSort(index, field, value).
UpdateSort ==
    /\ upc = "editing"
    /\ \E index \in DOMAIN pendingSorts :
        \/ \E v \in ColumnNames :
            pendingSorts' = [pendingSorts EXCEPT ![index].column = v]
        \/ \E v \in Directions :
            pendingSorts' = [pendingSorts EXCEPT ![index].direction = v]
    /\ UNCHANGED <<pendingFilters, upc, urlParams, parsedFilters, parsedSorts>>
    /\ UNCHANGED othersOfUrl

\* TablePageClient.handleSubmit: router.push of the serialized parameters.
HandleSubmit ==
    /\ upc = "editing"
    /\ urlParams' = SubmitParams(pendingFilters, pendingSorts)
    /\ upc' = "pushed"
    /\ UNCHANGED <<pendingFilters, pendingSorts, parsedFilters, parsedSorts>>
    /\ UNCHANGED othersOfUrl

\* The server parses the search parameters of the pushed URL.
ParseSearchParams ==
    /\ upc = "pushed"
    /\ parsedFilters' = parseFiltersFromSearchParams(ToRecord(urlParams))
    /\ parsedSorts' = parseSortsFromSearchParams(ToRecord(urlParams))
    /\ upc' = "parsed"
    /\ UNCHANGED <<pendingFilters, pendingSorts, urlParams>>
    /\ UNCHANGED othersOfUrl

\* The page is shown again and the user goes on editing.
ContinueEditing ==
    /\ upc = "parsed"
    /\ upc' = "editing"
    /\ urlParams' = <<>>
    /\ parsedFilters' = <<>>
    /\ parsedSorts' = <<>>
    /\ UNCHANGED <<pendingFilters, pendingSorts>>
    /\ UNCHANGED othersOfUrl

NextUrl ==
    \/ AddFilter
    \/ RemoveFilter
    \/ UpdateFilter
    \/ AddSort
    \/ RemoveSort
    \/ UpdateSort
    \/ HandleSubmit
    \/ ParseSearchParams
    \/ ContinueEditing

SpecUrl == InitUrl /\ [][NextUrl]_vars

\* C10: serializing pending filters with non-empty values and pending sorts as
\* handleSubmit does and parsing the result yields the original filters and
\* sorts, the same elements in the same order.
C10_RoundTrip ==
    (upc = "parsed" /\ \A i \in DOMAIN pendingFilters : pendingFilters[i].value # <<>>)
        => /\ parsedFilters = pendingFilters
           /\ parsedSorts = pendingSorts

(***************************************************************************)
(* Spec: the operations of the database layer on one table                 *)
(*   test_users(id identity primary key, name text not null, age int)      *)
(* run by one client, one call at a time.  An operation is a sequence of   *)
(* awaited steps: obtaining a connection, then one statement per step.     *)
(* The implementation is one of the three adapters or lib/db.ts ("db.ts"). *)
(***************************************************************************)
MaxId == 2          \* rows ever inserted (values of the identity column)
MaxPage == 2        \* page numbers requested
MaxPageSize == 2    \* page sizes requested

Implementations == Adapters \cup {"db.ts"}

\* Implementations that check a client out of a pg Pool for each operation.
UsesPgPool(a) == a \in {"postgresql", "db.ts"}

Digits == <<"0", "1", "2", "3", "4", "5", "6", "7", "8", "9">>

RECURSIVE NumStr(_)
\* String(n) for a natural number.
NumStr(n) ==
    IF n < 10 THEN Digits[n + 1]
    ELSE NumStr(n \div 10) \o Digits[(n % 10) + 1]

IsNumeral(s) == \E n \in 0 .. 99 : NumStr(n) = s

\* The number a decimal text denotes (the engine's cast of a bound parameter).
NumeralValue(s) == CHOOSE n \in 0 .. 99 : NumStr(n) = s

TableColumns == {"id", "name", "age"}
NumericColumns == {"id", "age"}

\* A stored row as the driver hands it over.
DriverRow(r) == [id |-> JSNum(NumStr(r.id)), name |-> r.name, age |-> r.age]

ColumnValue(r, col) == DriverRow(r)[col]

\* The operator token the adapters put into the WHERE clause for filter.operator.
OperatorToken(op) ==
    IF op \in {"=", "!=", ">", "<", ">=", "<=", "LIKE", "NOT LIKE"} THEN op ELSE "="

\* The engine's evaluation of  column <token> parameter  on one row.
\* A NULL column satisfies no comparison; LIKE is taken on patterns without
\* wildcard characters, where it is equality.
Compare(token, col, v, value) ==
    IF v.k = "null" THEN FALSE
    ELSE CASE token \in {"=", "LIKE"} -> v.s = value
           [] token \in {"!=", "NOT LIKE"} -> v.s # value
           [] token = ">" -> col \in NumericColumns /\ NumeralValue(v.s) > NumeralValue(value)
           [] token = "<" -> col \in NumericColumns /\ NumeralValue(v.s) < NumeralValue(value)
           [] token = ">=" -> col \in NumericColumns /\ NumeralValue(v.s) >= NumeralValue(value)
           [] token = "<=" -> col \in NumericColumns /\ NumeralValue(v.s) <= NumeralValue(value)

\* WHERE clause of getTableData: the conjunction of the filter conditions.
RowSatisfies(r, filters) ==
    \A i \in DOMAIN filters :
        Compare(OperatorToken(filters[i].operator), filters[i].column,
                ColumnValue(r, filters[i].column), filters[i].value)

Matching(tbl, filters) == {r \in tbl : RowSatisfies(r, filters)}

\* A count that leaves the WHERE clause out.
CountAllRows(tbl, filters) == Cardinality(tbl)

\* SELECT COUNT(*) ... WHERE <conditions>.
CountRows(tbl, filters) == Cardinality(Matching(tbl, filters))

\* A statement naming a column the table does not have is rejected by the engine.
FilterError(filters) == \E i \in DOMAIN filters : filters[i].column \notin TableColumns
SortError(sorts) == \E i \in DOMAIN sorts : sorts[i].column \notin TableColumns

\* ORDER BY: r1 may precede r2 under the sort list (keys are numeric columns).
RECURSIVE MayPrecede(_, _, _)
MayPrecede(r1, r2, sorts) ==
    IF sorts = <<>> THEN TRUE
    ELSE LET col == sorts[1].column
             k1 == NumeralValue(ColumnValue(r1, col).s)
             k2 == NumeralValue(ColumnValue(r2, col).s)
         IN  IF k1 = k2 THEN MayPrecede(r1, r2, Tail(sorts))
             ELSE IF sorts[1].direction = "desc" THEN k1 > k2 ELSE k1 < k2

\* The orders in which the engine may produce the rows S for the sort list:
\* every arrangement the ORDER BY clause allows (any arrangement without one).
Orderings(S, sorts) ==
    {seq \in [1 .. Cardinality(S) -> S] :
        /\ \A i, j \in DOMAIN seq : i # j => seq[i] # seq[j]
        /\ \A i, j \in DOMAIN seq : i < j => MayPrecede(seq[i], seq[j], sorts)}

Min(a, b) == IF a < b THEN a ELSE b

\* LIMIT pageSize OFFSET offset (OFFSET .. ROWS FETCH NEXT .. ROWS ONLY).
LimitOffset(seq, pageSize, offset) ==
    SubSeq(seq, offset + 1, Min(offset + pageSize, Len(seq)))

MathFloorDiv(a, b) == a \div b

\* Math.ceil(totalRows / pageSize)
MathCeilDiv(a, b) == (a + b - 1) \div b

\* The value an adapter binds for a supplied value (insertTableRow, updateTableRow).
\* MySQL: the strings "true" / "false" in any case become 1 / 0.
BindValue(a, v) ==
    IF a = "mysql" /\ v.k = "string" /\ v.s \in {"true", "TRUE", "True"} THEN JSNum("1")
    ELSE IF a = "mysql" /\ v.k = "string" /\ v.s \in {"false", "FALSE", "False"} THEN JSNum("0")
    ELSE v

\* The value the engine stores in a column for a bound parameter: text columns
\* keep the parameter's text, integer columns its number.
StoreValue(col, v) ==
    IF v.k = "null" THEN JSNull
    ELSE IF col \in NumericColumns THEN JSNum(v.s)
    ELSE JSStr(v.s)

\* WHERE of updateTableRow / deleteTableRow: equality on every entry of primaryKeyValues.
MatchesPk(r, pk) ==
    \A col \in DOMAIN pk :
        ColumnValue(r, col).k # "null" /\ ColumnValue(r, col).s = pk[col]

UpdateEveryRow(a, tbl, pk, data) ==
    {[id |-> r.id,
      name |-> IF "name" \in DOMAIN data THEN StoreValue("name", BindValue(a, data.name)) ELSE r.name,
      age |-> IF "age" \in DOMAIN data THEN StoreValue("age", BindValue(a, data.age)) ELSE r.age]
        : r \in tbl}

\* UPDATE t SET <data> WHERE <pk>: the table after the statement.
UpdateRows(a, tbl, pk, data) ==
    {IF MatchesPk(r, pk)
     THEN [id |-> r.id,
           name |-> IF "name" \in DOMAIN data
                    THEN StoreValue("name", BindValue(a, data.name)) ELSE r.name,
           age |-> IF "age" \in DOMAIN data
                   THEN StoreValue("age", BindValue(a, data.age)) ELSE r.age]
     ELSE r : r \in tbl}

DeleteNoRow(tbl, pk) == tbl

\* DELETE FROM t WHERE <pk>: the table after the statement.
DeleteRows(tbl, pk) == {r \in tbl : ~MatchesPk(r, pk)}

\* INSERT INTO t (<columns of data>) VALUES (...): the row the engine stores.
InsertedRow(a, id, data) ==
    [id |-> id,
     name |-> StoreValue("name", BindValue(a, data.name)),
     age |-> IF "age" \in DOMAIN data THEN StoreValue("age", BindValue(a, data.age)) ELSE JSNull]

\* The rows an implementation returns for driver rows: the adapters convert
\* every value to a string, lib/db.ts hands the driver rows on.
ReturnedRows(a, rows) ==
    IF a \in Adapters THEN convertRowsToStrings(a, [i \in DOMAIN rows |-> DriverRow(rows[i])])
    ELSE [i \in DOMAIN rows |-> DriverRow(rows[i])]

\* SELECT * FROM t WHERE <pk>: the rows in some order.
SelectByPk(tbl, pk) == Orderings({r \in tbl : MatchesPk(r, pk)}, <<>>)

\* The arguments the client passes.
FilterChoices ==
    {<<>>}
    \cup {<<[column |-> "id", operator |-> "=", value |-> NumStr(k)]>> : k \in 1 .. MaxId}
    \cup {<<[column |-> "name", operator |-> "=", value |-> "X"]>>,
          <<[column |-> "zip", operator |-> "=", value |-> "1"]>>}

SortChoices ==
    {<<>>, <<[column |-> "id", direction |-> "desc"]>>, <<[column |-> "zip", direction |-> "asc"]>>}

PkChoices == {[id |-> NumStr(k)] : k \in 1 .. MaxId}

InsertChoices == {[name |-> JSStr("X")], [name |-> JSStr("true"), age |-> JSNum("30")]}

UpdateChoices ==
    {[name |-> JSStr("Y")], [age |-> JSNum("35")], [name |-> JSStr("true"), age |-> JSNum("35")]}

SqlChoices ==
    {"SELECT * FROM test_users", "SELECT * FROM non_existent_table", "DELETE FROM test_users"}

\* The first statement of an operation, once a connection is at hand.
FirstStatement(a, op) ==
    CASE op = "getTableData" -> "count"
      [] op = "insertTableRow" -> IF a = "mssql" THEN "types" ELSE "insert"
      [] op = "updateTableRow" -> IF a = "mssql" THEN "types" ELSE "update"
      [] op = "deleteTableRow" -> IF UsesPgPool(a) THEN "delete" ELSE "select"
      [] op = "executeQuery" -> "query"

\* The first await of an operation: pool.connect() (pg), ensureConnected()
\* (MSSQL), or the first statement on the one connection (MySQL).
FirstStep(a, op) ==
    IF UsesPgPool(a) THEN "connect"
    ELSE IF a = "mssql" THEN "ensure"
    ELSE FirstStatement(a, op)

\* A statement is rejected when the server does not answer or the adapter's
\* connection is closed (a checked-out pg client stays usable).
StmtFails(c) == ~dbUp \/ (~call[c].client /\ ~connOpen)

\* The operation rejects: the error propagates to the caller.
Thrown == [NoResult EXCEPT !.kind = "throw", !.error = "Error"]

\* The operation resolves with one row: rows[0] of a statement's result.
\* The adapters pass rows[0] to convertRowToStrings, whose Object.entries
\* throws a TypeError on undefined; lib/db.ts returns rows[0] as it is.
RowResult(a, seq) ==
    IF seq = <<>>
    THEN IF a = "db.ts" THEN [NoResult EXCEPT !.kind = "return"] ELSE Thrown
    ELSE [NoResult EXCEPT !.kind = "return", !.rows = <<ReturnedRows(a, seq)[1]>>]

\* The operation settles without client.release().
CompleteNoRelease(c, r) ==
    /\ res' = [res EXCEPT ![c] = r]
    /\ pc' = [pc EXCEPT ![c] = "done"]
    /\ checkedOut' = checkedOut

\* The operation settles with outcome r; finally { client.release(); }.
Complete(c, r) ==
    /\ res' = [res EXCEPT ![c] = r]
    /\ pc' = [pc EXCEPT ![c] = "done"]
    /\ checkedOut' = IF call[c].client THEN checkedOut - 1 ELSE checkedOut

InitDb ==
    /\ adapter \in Implementations
    /\ dbUp = TRUE
    /\ connOpen = TRUE
    /\ checkedOut = 0
    /\ table = {}
    /\ nextId = 1
    /\ pc = [c \in Clients |-> "idle"]
    /\ call = [c \in Clients |-> NoCall]
    /\ res = [c \in Clients |-> NoResult]
    /\ deletedPks = {}
    /\ cvIdle
    /\ facIdle
    /\ urlIdle
    /\ sqlIdle
    /\ catIdle
    /\ msIdle
    /\ cfgIdle
    /\ fmtIdle
    /\ pgIdle
    /\ uiIdle

CallGetTableData(c) ==
    /\ pc[c] = "idle"
    /\ \E page \in 1 .. MaxPage, pageSize \in 1 .. MaxPageSize,
          filters \in FilterChoices, sorts \in SortChoices :
            call' = [call EXCEPT ![c] =
                        [NoCall EXCEPT !.op = "getTableData", !.page = page,
                                       !.pageSize = pageSize, !.filters = filters,
                                       !.sorts = sorts]]
    /\ pc' = [pc EXCEPT ![c] = FirstStep(adapter, "getTableData")]
    /\ UNCHANGED <<adapter, dbUp, connOpen, checkedOut, table, nextId, res, deletedPks>>
    /\ UNCHANGED othersOfDb

CallInsertTableRow(c) ==
    /\ pc[c] = "idle"
    /\ nextId <= MaxId
    /\ \E data \in InsertChoices :
            call' = [call EXCEPT ![c] = [NoCall EXCEPT !.op = "insertTableRow", !.data = data,
                                       !.before = table]]
    /\ pc' = [pc EXCEPT ![c] = FirstStep(adapter, "insertTableRow")]
    /\ UNCHANGED <<adapter, dbUp, connOpen, checkedOut, table, nextId, res, deletedPks>>
    /\ UNCHANGED othersOfDb

CallUpdateTableRow(c) ==
    /\ pc[c] = "idle"
    /\ \E pk \in PkChoices, data \in UpdateChoices :
            call' = [call EXCEPT ![c] =
                        [NoCall EXCEPT !.op = "updateTableRow", !.pk = pk, !.data = data,
                                       !.before = table]]
    /\ pc' = [pc EXCEPT ![c] = FirstStep(adapter, "updateTableRow")]
    /\ UNCHANGED <<adapter, dbUp, connOpen, checkedOut, table, nextId, res, deletedPks>>
    /\ UNCHANGED othersOfDb

CallDeleteTableRow(c) ==
    /\ pc[c] = "idle"
    /\ \E pk \in PkChoices :
            call' = [call EXCEPT ![c] = [NoCall EXCEPT !.op = "deleteTableRow", !.pk = pk,
                                       !.before = table]]
    /\ pc' = [pc EXCEPT ![c] = FirstStep(adapter, "deleteTableRow")]
    /\ UNCHANGED <<adapter, dbUp, connOpen, checkedOut, table, nextId, res, deletedPks>>
    /\ UNCHANGED othersOfDb

CallExecuteQuery(c) ==
    /\ pc[c] = "idle"
    /\ \E sql \in SqlChoices :
            call' = [call EXCEPT ![c] = [NoCall EXCEPT !.op = "executeQuery", !.sql = sql]]
    /\ pc' = [pc EXCEPT ![c] = FirstStep(adapter, "executeQuery")]
    /\ UNCHANGED <<adapter, dbUp, connOpen, checkedOut, table, nextId, res, deletedPks>>
    /\ UNCHANGED othersOfDb

\* disconnect() of an adapter (lib/db.ts has none).
CallDisconnect(c) ==
    /\ pc[c] = "idle"
    /\ adapter \in Adapters
    /\ call' = [call EXCEPT ![c] = [NoCall EXCEPT !.op = "disconnect"]]
    /\ pc' = [pc EXCEPT ![c] = "end"]
    /\ UNCHANGED <<adapter, dbUp, connOpen, checkedOut, table, nextId, res, deletedPks>>
    /\ UNCHANGED othersOfDb

\* const client = await this.pool.connect();  -- before the try block.
\* An open pool hands out a client (an idle one even when the server is
\* away); it rejects when it has been ended or cannot reach the server.
PoolConnect(c) ==
    /\ pc[c] = "connect"
    /\ \/ /\ connOpen
          /\ checkedOut' = checkedOut + 1
          /\ call' = [call EXCEPT ![c].client = TRUE]
          /\ pc' = [pc EXCEPT ![c] = FirstStatement(adapter, call[c].op)]
          /\ UNCHANGED res
       \/ /\ ~connOpen \/ ~dbUp
          /\ res' = [res EXCEPT ![c] = Thrown]
          /\ pc' = [pc EXCEPT ![c] = "done"]
          /\ UNCHANGED <<checkedOut, call>>
    /\ UNCHANGED <<adapter, dbUp, connOpen, table, nextId, deletedPks>>
    /\ UNCHANGED othersOfDb

\* await this.ensureConnected();  -- before the try block.
EnsureConnected(c) ==
    /\ pc[c] = "ensure"
    /\ IF connOpen \/ dbUp
       THEN /\ connOpen' = TRUE
            /\ pc' = [pc EXCEPT ![c] = FirstStatement(adapter, call[c].op)]
            /\ UNCHANGED res
       ELSE /\ res' = [res EXCEPT ![c] = Thrown]
            /\ pc' = [pc EXCEPT ![c] = "done"]
            /\ UNCHANGED connOpen
    /\ UNCHANGED <<adapter, dbUp, checkedOut, table, nextId, call, deletedPks>>
    /\ UNCHANGED othersOfDb

\* getTableData: SELECT COUNT(*) ... <where>.  The adapters have no catch
\* around it (MSSQL's rethrows); lib/db.ts returns its error result.
CountQuery(c) ==
    /\ pc[c] = "count"
    /\ IF StmtFails(c) \/ FilterError(call[c].filters)
       THEN /\ call' = [call EXCEPT ![c].countQuery = "failed"]
            /\ IF adapter = "db.ts"
               THEN Complete(c, [NoResult EXCEPT !.kind = "return",
                                                 !.error = "Database query failed",
                                                 !.page = 1, !.pageSize = 10])
               ELSE Complete(c, Thrown)
       ELSE /\ call' = [call EXCEPT ![c].countQuery = "ok",
                                    ![c].count = CountRows(table, call[c].filters)]
            /\ pc' = [pc EXCEPT ![c] = "data"]
            /\ UNCHANGED <<res, checkedOut>>
    /\ UNCHANGED <<adapter, dbUp, connOpen, table, nextId, deletedPks>>
    /\ UNCHANGED othersOfDb

\* getTableData: SELECT * ... <where> <order by> LIMIT pageSize OFFSET offset,
\* and the result object built from its rows.
DataQuery(c) ==
    /\ pc[c] = "data"
    /\ IF StmtFails(c) \/ FilterError(call[c].filters) \/ SortError(call[c].sorts)
       THEN /\ call' = [call EXCEPT ![c].dataQuery = "failed"]
            /\ IF adapter = "db.ts"
               THEN Complete(c, [NoResult EXCEPT !.kind = "return",
                                                 !.error = "Database query failed",
                                                 !.page = call[c].page,
                                                 !.pageSize = call[c].pageSize])
               ELSE Complete(c, Thrown)
       ELSE /\ call' = [call EXCEPT ![c].dataQuery = "ok"]
            /\ \E seq \in Orderings(Matching(table, call[c].filters), call[c].sorts) :
                 Complete(c, [NoResult EXCEPT
                     !.kind = "return",
                     !.rows = ReturnedRows(adapter,
                                  LimitOffset(seq, call[c].pageSize,
                                              (call[c].page - 1) * call[c].pageSize)),
                     !.totalCount = call[c].count,
                     !.page = call[c].page,
                     !.pageSize = call[c].pageSize,
                     !.totalPages = MathCeilDiv(call[c].count, call[c].pageSize)])
    /\ UNCHANGED <<adapter, dbUp, connOpen, table, nextId, deletedPks>>
    /\ UNCHANGED othersOfDb

\* MSSQL: const columnTypes = await this.getTableColumnTypes(tableName);
\* (which ensures the connection itself before its query).
ColumnTypes(c) ==
    /\ pc[c] = "types"
    /\ IF dbUp
       THEN /\ connOpen' = TRUE
            /\ pc' = [pc EXCEPT ![c] =
                        IF call[c].op = "insertTableRow" THEN "insert" ELSE "update"]
            /\ UNCHANGED <<res, checkedOut>>
       ELSE /\ Complete(c, Thrown)
            /\ UNCHANGED connOpen
    /\ UNCHANGED <<adapter, dbUp, table, nextId, call, deletedPks>>
    /\ UNCHANGED othersOfDb

\* insertTableRow: the INSERT statement.  PostgreSQL (RETURNING *) and MSSQL
\* (OUTPUT INSERTED.*) return the stored row; MySQL keeps insertId and selects.
InsertStmt(c) ==
    /\ pc[c] = "insert"
    /\ IF StmtFails(c)
       THEN /\ Complete(c, Thrown)
            /\ UNCHANGED <<table, nextId, call>>
       ELSE LET row == InsertedRow(adapter, nextId, call[c].data)
            IN  /\ table' = table \cup {row}
                /\ nextId' = nextId + 1
                /\ IF adapter = "mysql"
                   THEN /\ call' = [call EXCEPT ![c].insertId = nextId]
                        /\ pc' = [pc EXCEPT ![c] = "select"]
                        /\ UNCHANGED <<res, checkedOut>>
                   ELSE /\ Complete(c, RowResult(adapter, <<row>>))
                        /\ UNCHANGED call
    /\ UNCHANGED <<adapter, dbUp, connOpen, deletedPks>>
    /\ UNCHANGED othersOfDb

\* updateTableRow: the UPDATE statement.  PostgreSQL returns the updated rows
\* (RETURNING *); MySQL and MSSQL select the row afterwards.
UpdateStmt(c) ==
    /\ pc[c] = "update"
    /\ IF StmtFails(c)
       THEN /\ Complete(c, Thrown)
            /\ UNCHANGED table
       ELSE /\ table' = UpdateRows(adapter, table, call[c].pk, call[c].data)
            /\ IF UsesPgPool(adapter)
               THEN \E seq \in SelectByPk(table', call[c].pk) :
                        Complete(c, RowResult(adapter, seq))
               ELSE /\ pc' = [pc EXCEPT ![c] = "select"]
                    /\ UNCHANGED <<res, checkedOut>>
    /\ UNCHANGED <<adapter, dbUp, connOpen, nextId, call, deletedPks>>
    /\ UNCHANGED othersOfDb

\* SELECT * FROM t WHERE ...: after MySQL's INSERT (WHERE id = insertId),
\* after MySQL's and MSSQL's UPDATE, before MySQL's and MSSQL's DELETE.
SelectStmt(c) ==
    /\ pc[c] = "select"
    /\ IF StmtFails(c)
       THEN /\ Complete(c, Thrown)
            /\ UNCHANGED call
       ELSE \E seq \in SelectByPk(table,
                    IF call[c].op = "insertTableRow"
                    THEN [id |-> NumStr(call[c].insertId)] ELSE call[c].pk) :
              IF call[c].op = "deleteTableRow" /\ seq # <<>>
              THEN /\ call' = [call EXCEPT ![c].selected = <<seq[1]>>]
                   /\ pc' = [pc EXCEPT ![c] = "delete"]
                   /\ UNCHANGED <<res, checkedOut>>
              ELSE /\ Complete(c, RowResult(adapter, seq))
                   /\ UNCHANGED call
    /\ UNCHANGED <<adapter, dbUp, connOpen, table, nextId, deletedPks>>
    /\ UNCHANGED othersOfDb

\* deleteTableRow: the DELETE statement.  PostgreSQL returns the removed rows
\* (RETURNING *); MySQL and MSSQL return the row selected before.
DeleteStmt(c) ==
    /\ pc[c] = "delete"
    /\ IF StmtFails(c)
       THEN /\ Complete(c, Thrown)
            /\ UNCHANGED <<table, call, deletedPks>>
       ELSE /\ table' = DeleteRows(table, call[c].pk)
            /\ call' = [call EXCEPT ![c].removed = table \ table']
            /\ \E seq \in Orderings(table \ table', <<>>) :
                 LET r == IF UsesPgPool(adapter)
                          THEN RowResult(adapter, seq)
                          ELSE RowResult(adapter, call[c].selected)
                 IN  /\ Complete(c, r)
                     /\ deletedPks' = IF r.kind = "return" /\ r.rows # <<>>
                                      THEN deletedPks \cup {call[c].pk}
                                      ELSE deletedPks
    /\ UNCHANGED <<adapter, dbUp, connOpen, nextId>>
    /\ UNCHANGED othersOfDb

\* The QueryResult of a failed executeQuery.
QueryFailure(message) ==
    [NoResult EXCEPT !.kind = "return", !.success = FALSE, !.error = message]

\* executeQuery: the statement, inside try / catch.  For a statement without
\* a result set MySQL's rows (a ResultSetHeader) and MSSQL's recordset
\* (undefined) have no map(): convertRowsToStrings throws into the catch.
RunQuery(c) ==
    /\ pc[c] = "query"
    /\ IF StmtFails(c) \/ call[c].sql = "SELECT * FROM non_existent_table"
       THEN /\ Complete(c, QueryFailure("Error"))
            /\ UNCHANGED table
       ELSE IF call[c].sql = "SELECT * FROM test_users"
       THEN /\ \E seq \in Orderings(table, <<>>) :
                 Complete(c, [NoResult EXCEPT !.kind = "return", !.success = TRUE,
                                              !.rows = ReturnedRows(adapter, seq)])
            /\ UNCHANGED table
       ELSE /\ table' = {}
            /\ IF UsesPgPool(adapter)
               THEN Complete(c, [NoResult EXCEPT !.kind = "return", !.success = TRUE])
               ELSE Complete(c, QueryFailure("rows.map is not a function"))
    /\ UNCHANGED <<adapter, dbUp, connOpen, nextId, call, deletedPks>>
    /\ UNCHANGED othersOfDb

\* disconnect(): pool.end() / connection.end() / pool.close() when connected.
\* Ending a pg pool a second time rejects.
EndPool(c) ==
    /\ pc[c] = "end"
    /\ connOpen' = FALSE
    /\ IF adapter = "postgresql" /\ ~connOpen
       THEN Complete(c, Thrown)
       ELSE Complete(c, [NoResult EXCEPT !.kind = "return"])
    /\ UNCHANGED <<adapter, dbUp, table, nextId, call, deletedPks>>
    /\ UNCHANGED othersOfDb

\* The caller takes the outcome; the client is free for its next call.
Return(c) ==
    /\ pc[c] = "done"
    /\ pc' = [pc EXCEPT ![c] = "idle"]
    /\ call' = [call EXCEPT ![c] = NoCall]
    /\ res' = [res EXCEPT ![c] = NoResult]
    /\ UNCHANGED <<adapter, dbUp, connOpen, checkedOut, table, nextId, deletedPks>>
    /\ UNCHANGED othersOfDb

\* The database server becomes unreachable / reachable again.
DbDown ==
    /\ dbUp
    /\ dbUp' = FALSE
    /\ UNCHANGED <<adapter, connOpen, checkedOut, table, nextId, pc, call, res, deletedPks>>
    /\ UNCHANGED othersOfDb

DbUp ==
    /\ ~dbUp
    /\ dbUp' = TRUE
    /\ UNCHANGED <<adapter, connOpen, checkedOut, table, nextId, pc, call, res, deletedPks>>
    /\ UNCHANGED othersOfDb

\* One logical request at a time: the operations of a single client.
SequentialClients == {"c1"}

Next ==
    \/ \E c \in SequentialClients : CallGetTableData(c)
    \/ \E c \in SequentialClients : CallInsertTableRow(c)
    \/ \E c \in SequentialClients : CallUpdateTableRow(c)
    \/ \E c \in SequentialClients : CallDeleteTableRow(c)
    \/ \E c \in SequentialClients : CallExecuteQuery(c)
    \/ \E c \in SequentialClients : CallDisconnect(c)
    \/ \E c \in SequentialClients : PoolConnect(c)
    \/ \E c \in SequentialClients : EnsureConnected(c)
    \/ \E c \in SequentialClients : CountQuery(c)
    \/ \E c \in SequentialClients : DataQuery(c)
    \/ \E c \in SequentialClients : ColumnTypes(c)
    \/ \E c \in SequentialClients : InsertStmt(c)
    \/ \E c \in SequentialClients : UpdateStmt(c)
    \/ \E c \in SequentialClients : SelectStmt(c)
    \/ \E c \in SequentialClients : DeleteStmt(c)
    \/ \E c \in SequentialClients : RunQuery(c)
    \/ \E c \in SequentialClients : EndPool(c)
    \/ \E c \in SequentialClients : Return(c)
    \/ DbDown
    \/ DbUp

Spec == InitDb /\ [][Next]_vars

\* C1: for every adapter and every SQL string, executeQuery never throws or
\* rejects: a failure while obtaining a connection or while running the
\* statement is returned as a QueryResult with success = false, rows = []
\* and a non-empty error string.
C1_ExecuteQueryNeverThrows ==
    \A c \in Clients :
        (adapter \in Adapters /\ call[c].op = "executeQuery" /\ pc[c] = "done")
            => /\ res[c].kind = "return"
               /\ ~res[c].success => (res[c].rows = <<>> /\ res[c].error # "")

\* C2: in getTableData of every adapter, a failed COUNT(*) query makes the
\* call return (not throw) a result with error populated, rows empty and
\* totalCount 0, and the data query is never issued.
C2_CountFailureReturned ==
    \A c \in Clients :
        (adapter \in Adapters /\ call[c].op = "getTableData" /\ pc[c] = "done"
         /\ call[c].countQuery = "failed")
            => /\ res[c].kind = "return"
               /\ res[c].error # ""
               /\ res[c].rows = <<>>
               /\ res[c].totalCount = 0
               /\ call[c].dataQuery = "-"

\* C3: in getTableData, when the COUNT(*) query succeeds and the data query
\* then fails, the call returns without throwing a result that carries the
\* count already obtained as totalCount, empty rows and a populated error.
C3_DataFailureKeepsCount ==
    \A c \in Clients :
        (call[c].op = "getTableData" /\ pc[c] = "done"
         /\ call[c].countQuery = "ok" /\ call[c].dataQuery = "failed")
            => /\ res[c].kind = "return"
               /\ res[c].totalCount = call[c].count
               /\ res[c].rows = <<>>
               /\ res[c].error # ""

\* C6: every TableDataResult returned by getTableData, for page >= 1 and
\* pageSize >= 1, has at most pageSize rows, and its totalPages is the least
\* number of pages of pageSize that hold totalCount rows.
C6_PageBounds ==
    \A c \in Clients :
        (call[c].op = "getTableData" /\ pc[c] = "done" /\ res[c].kind = "return")
            => /\ Len(res[c].rows) <= res[c].pageSize
               /\ res[c].totalPages * res[c].pageSize >= res[c].totalCount
               /\ (res[c].totalPages - 1) * res[c].pageSize < res[c].totalCount

\* A getTableData that returned the second page of two one-row pages.
C6_Witness ==
    \E c \in Clients :
        /\ call[c].op = "getTableData" /\ pc[c] = "done" /\ res[c].kind = "return"
        /\ res[c].error = ""
        /\ res[c].totalCount = 2 /\ res[c].pageSize = 1 /\ res[c].page = 2
        /\ Len(res[c].rows) = 1 /\ res[c].totalPages = 2

\* C7: deleteTableRow(t, pk) on an existing row returns that row as it was
\* immediately before the deletion, and once it has returned, a read of t
\* filtered by equality on pk returns zero rows.
C7_DeleteReturnsRowThenGone ==
    \A c \in Clients :
        /\ (call[c].op = "deleteTableRow" /\ pc[c] = "done" /\ call[c].removed # {})
              => (res[c].kind = "return" /\ res[c].rows # <<>>)
        /\ (call[c].op = "deleteTableRow" /\ pc[c] = "done"
            /\ res[c].kind = "return" /\ res[c].rows # <<>>)
              => \E r \in call[c].removed : res[c].rows = ReturnedRows(adapter, <<r>>)
        /\ (call[c].op = "getTableData" /\ pc[c] = "done"
            /\ res[c].kind = "return" /\ res[c].error = ""
            /\ Len(call[c].filters) = 1
            /\ call[c].filters[1].column = "id"
            /\ call[c].filters[1].operator = "="
            /\ [id |-> call[c].filters[1].value] \in deletedPks)
              => (res[c].rows = <<>> /\ res[c].totalCount = 0)

\* A read filtered by the primary key of a row whose deletion has returned it.
C7_Witness ==
    \E c \in Clients :
        /\ call[c].op = "getTableData" /\ pc[c] = "done"
        /\ res[c].kind = "return" /\ res[c].error = ""
        /\ Len(call[c].filters) = 1
        /\ call[c].filters[1].column = "id"
        /\ [id |-> call[c].filters[1].value] \in deletedPks
        /\ table # {}

C9_InsertReturnsSupplied ==
    \A c \in Clients :
        (adapter \in Adapters /\ call[c].op = "insertTableRow" /\ pc[c] = "done"
         /\ res[c].kind = "return")
            => /\ res[c].rows # <<>>
               /\ \A col \in DOMAIN call[c].data :
                    res[c].rows[1][col] = JSStr(JsString(call[c].data[col]))

(***************************************************************************)
(* SpecQuery: the search parameters of a request for the table page, their *)
(* parsing, and the SQL that getTableData builds from them.  The request's *)
(* parameters are any entry list; strings are sequences of characters.     *)
(***************************************************************************)
MaxParams == 2      \* entries of the query string

ParamKeys ==
    { <<"f","i","l","t","e","r","s","[","a","g","e","]">>,
      <<"f","i","l","t","e","r","s","[","n","a","m","e","]">>,
      <<"s","o","r","t","[","a","g","e","]">>,
      <<"s","o","r","t","[","i","d","]">>,
      <<"p","a","g","e">> }

ParamValues ==
    { <<>>, <<"=",":">>, <<"=",":","5">>, <<"=",":"," ">>, <<"=",":","a",":","b">>,
      <<"5">>, <<"L","I","K","E",":","a">>, <<"~",":","5">>,
      <<"a","s","c">>, <<"d","e","s","c">>, <<"A","S","C">>, <<"a","s","c",";","x">> }

\* The entry lists a query string can carry.
ParamLists ==
    UNION {[1 .. n -> [key : ParamKeys, value : ParamValues]] : n \in 0 .. MaxParams}

InitQuery ==
    /\ urlParams \in ParamLists
    /\ upc = "pushed"
    /\ pendingFilters = <<>>
    /\ pendingSorts = <<>>
    /\ parsedFilters = <<>>
    /\ parsedSorts = <<>>
    /\ qImpl \in Implementations
    /\ qQuery = <<>>
    /\ qText = ""
    /\ qValues = <<>>
    /\ cvIdle
    /\ facIdle
    /\ dbIdle
    /\ catIdle
    /\ msIdle
    /\ cfgIdle
    /\ fmtIdle
    /\ pgIdle
    /\ uiIdle

\* The text of a sequence of characters.
RECURSIVE Str(_)
Str(seq) == IF seq = <<>> THEN "" ELSE Head(seq) \o Str(Tail(seq))

LowerLetters == <<"a","b","c","d","e","f","g","h","i","j","k","l","m",
                  "n","o","p","q","r","s","t","u","v","w","x","y","z">>
UpperLetters == <<"A","B","C","D","E","F","G","H","I","J","K","L","M",
                  "N","O","P","Q","R","S","T","U","V","W","X","Y","Z">>

\* String.prototype.toUpperCase().
ToUpperCase(seq) ==
    [i \in DOMAIN seq |->
        IF \E n \in DOMAIN LowerLetters : LowerLetters[n] = seq[i]
        THEN UpperLetters[CHOOSE n \in DOMAIN LowerLetters : LowerLetters[n] = seq[i]]
        ELSE seq[i]]

\* The ` character of MySQL identifiers (a string here cannot hold it).
Backtick == "<backtick>"

\* tableName.includes(".") ? tableName : `public.${tableName}` (MySQL: the
\* name in backticks, MSSQL: dbo.).
FullyQualifiedName(a, tableName) ==
    IF \E i \in DOMAIN tableName : tableName[i] = "."
    THEN Str(tableName)
    ELSE CASE a = "mysql" -> Backtick \o Str(tableName) \o Backtick
           [] a = "mssql" -> "dbo." \o Str(tableName)
           [] OTHER -> "public." \o Str(tableName)

\* A column name as an implementation quotes it.
QuoteColumn(a, column) ==
    CASE a = "mysql" -> Backtick \o column \o Backtick
      [] a = "mssql" -> "[" \o column \o "]"
      [] OTHER -> "\"" \o column \o "\""

\* The n-th parameter placeholder of an implementation.
Placeholder(a, n) ==
    CASE a = "mysql" -> "?"
      [] a = "mssql" -> "@param" \o NumStr(n)
      [] OTHER -> "$" \o NumStr(n)

\* Adapters: filters.map(...) -- a condition per filter, the value bound.
AdapterConditions(a, filters) ==
    [i \in DOMAIN filters |->
        [column |-> Str(filters[i].column),
         operator |-> OperatorToken(Str(filters[i].operator)),
         placeholder |-> Placeholder(a, i),
         value |-> Str(filters[i].value)]]

\* Adapters: sorts.map(sort => `"column" ${sort.direction.toUpperCase()}`).
AdapterOrderBy(sorts) ==
    [i \in DOMAIN sorts |->
        [column |-> Str(sorts[i].column),
         direction |-> Str(ToUpperCase(sorts[i].direction))]]

\* lib/db.ts: the conditions of the filters[...] entries.  An entry is skipped
\* when its whole value is empty; the operator is the text before the first
\* colon as it stands; a LIKE / NOT LIKE value is wrapped in % wildcards.
RECURSIVE DbtsConditions(_, _)
DbtsConditions(params, paramIndex) ==
    IF params = <<>> THEN <<>>
    ELSE LET column == MatchBracket(FiltersPrefix, Head(params).key)
             parts == SplitColon(Head(params).value, <<>>)
             operator == Str(parts[1])
             actualValue == Str(JoinColon(Tail(parts)))
         IN  IF column # <<>> /\ Head(params).value # <<>>
             THEN << [column |-> Str(column),
                      operator |-> operator,
                      placeholder |-> Placeholder("db.ts", paramIndex),
                      value |-> IF operator \in {"LIKE", "NOT LIKE"}
                                THEN "%" \o actualValue \o "%" ELSE actualValue] >>
                  \o DbtsConditions(Tail(params), paramIndex + 1)
             ELSE DbtsConditions(Tail(params), paramIndex)

\* lib/db.ts: sorts.push(`"${column}" ${value}`) for every sort[...] entry.
RECURSIVE DbtsOrderBy(_)
DbtsOrderBy(params) ==
    IF params = <<>> THEN <<>>
    ELSE LET column == MatchBracket(SortPrefix, Head(params).key)
         IN  (IF column # <<>>
              THEN << [column |-> Str(column), direction |-> Str(Head(params).value)] >>
              ELSE <<>>)
             \o DbtsOrderBy(Tail(params))

\* conditions.join(" AND ") / sortConditions.join(", ").
RECURSIVE JoinText(_, _)
JoinText(texts, separator) ==
    IF texts = <<>> THEN ""
    ELSE IF Len(texts) = 1 THEN texts[1]
    ELSE texts[1] \o separator \o JoinText(Tail(texts), separator)

ConditionTextInline(a, c) ==
    QuoteColumn(a, c.column) \o " " \o c.operator \o " '" \o c.value \o "'"

\* condition = `"${filter.column}" <operator> $${paramIndex}`
ConditionText(a, c) ==
    QuoteColumn(a, c.column) \o " " \o c.operator \o " " \o c.placeholder

\* The data query: SELECT * FROM t <where> <order by> <limit>.
DataQueryText(a, q) ==
    "SELECT * FROM " \o q.table
    \o (IF q.where = <<>> THEN ""
        ELSE " WHERE " \o JoinText(
                [i \in DOMAIN q.where |-> ConditionText(a, q.where[i])], " AND "))
    \o (IF q.orderBy = <<>>
        THEN (IF a = "mssql" THEN " ORDER BY (SELECT NULL)" ELSE "")
        ELSE " ORDER BY " \o JoinText(
                [i \in DOMAIN q.orderBy |->
                    QuoteColumn(a, q.orderBy[i].column) \o " " \o q.orderBy[i].direction],
                ", "))
    \o (CASE a = "mysql" ->
                " LIMIT " \o NumStr(q.pageSize) \o " OFFSET " \o NumStr(q.offset)
          [] a = "mssql" ->
                " OFFSET " \o NumStr(q.offset) \o " ROWS FETCH NEXT "
                \o NumStr(q.pageSize) \o " ROWS ONLY"
          [] OTHER ->
                " LIMIT " \o Placeholder(a, Len(q.where) + 1)
                \o " OFFSET " \o Placeholder(a, Len(q.where) + 2))

TableNames == { <<"t">>, <<"s",".","t">> }

\* getTableData up to its queries: the clauses an implementation builds, from
\* the request's parameters (lib/db.ts) or from Filter[] / Sort[] (adapters).
BuildClauses(a, tableName, params, filters, sorts) ==
    [table |-> FullyQualifiedName(a, tableName),
     where |-> IF a = "db.ts" THEN DbtsConditions(params, 1)
               ELSE AdapterConditions(a, filters),
     orderBy |-> IF a = "db.ts" THEN DbtsOrderBy(params) ELSE AdapterOrderBy(sorts),
     pageSize |-> 10,
     offset |-> 0]

\* getTableData builds its data query: lib/db.ts from the parameters of the
\* request, an adapter from the parsed filters and sorts.
BuildQuery ==
    /\ \/ qImpl = "db.ts" /\ upc = "pushed"
       \/ qImpl \in Adapters /\ upc = "parsed"
    /\ \E tableName \in TableNames :
         LET q == BuildClauses(qImpl, tableName, FromRecord(ToRecord(urlParams)),
                               parsedFilters, parsedSorts)
         IN  /\ qQuery' = q
             /\ qText' = DataQueryText(qImpl, q)
             /\ qValues' = [i \in DOMAIN q.where |-> q.where[i].value]
    /\ upc' = "built"
    /\ UNCHANGED <<qImpl, pendingFilters, pendingSorts, urlParams, parsedFilters, parsedSorts>>
    /\ UNCHANGED othersOfSql

NextQuery ==
    \/ ParseSearchParams
    \/ BuildQuery

SpecQuery == InitQuery /\ [][NextQuery]_vars

\* C11: parseFiltersFromSearchParams splits the value of each filters[<column>]
\* entry at its first colon only: the operator is the text before the first
\* colon and the filter value is everything after it, further colons included.
C11_SplitAtFirstColon ==
    upc = "parsed" =>
        /\ \A i \in DOMAIN parsedFilters :
             /\ \A k \in DOMAIN parsedFilters[i].operator : parsedFilters[i].operator[k] # ":"
             /\ \E j \in DOMAIN urlParams :
                  /\ urlParams[j].key = FiltersPrefix \o parsedFilters[i].column \o <<"]">>
                  /\ urlParams[j].value =
                        parsedFilters[i].operator \o <<":">> \o parsedFilters[i].value
        /\ \A j \in DOMAIN urlParams :
             \A k \in DOMAIN urlParams[j].value :
                LET key == urlParams[j].key
                    v == urlParams[j].value
                IN  (/\ Len(key) > Len(FiltersPrefix) + 1
                     /\ SubSeq(key, 1, Len(FiltersPrefix)) = FiltersPrefix
                     /\ key[Len(key)] = "]"
                     /\ v[k] = ":"
                     /\ \A m \in 1 .. k - 1 : v[m] # ":"
                     /\ \E m \in k + 1 .. Len(v) : v[m] # " ")
                    => \E i \in DOMAIN parsedFilters :
                         /\ parsedFilters[i].column
                                = SubSeq(key, Len(FiltersPrefix) + 1, Len(key) - 1)
                         /\ parsedFilters[i].operator = SubSeq(v, 1, k - 1)
                         /\ parsedFilters[i].value = SubSeq(v, k + 1, Len(v))

\* A parsed filter whose value holds a further colon.
C11_Witness ==
    /\ upc = "parsed"
    /\ \E i \in DOMAIN parsedFilters :
         \E k \in DOMAIN parsedFilters[i].value : parsedFilters[i].value[k] = ":"

\* C12: a filters[<column>] entry yields a filter if and only if its value
\* component, the text after the first colon, is non-empty -- in
\* parseFiltersFromSearchParams and in the parsing of lib/db.ts' getTableData.
C12_EmittedIffValueNonEmpty ==
    LET expected ==
            {j \in DOMAIN urlParams :
                /\ MatchBracket(FiltersPrefix, urlParams[j].key) # <<>>
                /\ \E k \in DOMAIN urlParams[j].value :
                     /\ urlParams[j].value[k] = ":"
                     /\ k < Len(urlParams[j].value)
                     /\ \A m \in 1 .. k - 1 : urlParams[j].value[m] # ":"}
    IN  /\ upc = "parsed" => Len(parsedFilters) = Cardinality(expected)
        /\ (upc = "built" /\ qImpl = "db.ts") => Len(qQuery.where) = Cardinality(expected)

\* C13: every sort direction that reaches the generated SQL is ASC or DESC: a
\* sort[<column>] entry whose value is not exactly asc or desc is dropped and
\* contributes nothing to the ORDER BY clause.
C13_SortDirections ==
    upc = "built" =>
        /\ \A i \in DOMAIN qQuery.orderBy :
                qQuery.orderBy[i].direction \in {"ASC", "DESC", "asc", "desc"}
        /\ Len(qQuery.orderBy) =
                Cardinality({j \in DOMAIN urlParams :
                    /\ MatchBracket(SortPrefix, urlParams[j].key) # <<>>
                    /\ urlParams[j].value \in {<<"a","s","c">>, <<"d","e","s","c">>}})

\* C14: for getTableData the generated SQL text is the same for any two
\* filter lists that differ only in their value fields: a filter value is a
\* bound parameter and never part of the SQL text.
C14_ValuesOnlyBound ==
    upc = "built" =>
        \A alt \in {<<>>, <<"9">>, <<"'", ";", "x">>} :
            LET filters == [i \in DOMAIN parsedFilters |->
                                [parsedFilters[i] EXCEPT !.value = alt]]
                entries == FromRecord(ToRecord(urlParams))
                params == [j \in DOMAIN entries |->
                            IF /\ MatchBracket(FiltersPrefix, entries[j].key) # <<>>
                               /\ entries[j].value # <<>>
                            THEN [entries[j] EXCEPT !.value =
                                    SplitColon(entries[j].value, <<>>)[1] \o <<":">> \o alt]
                            ELSE entries[j]]
                where == IF qImpl = "db.ts" THEN DbtsConditions(params, 1)
                         ELSE AdapterConditions(qImpl, filters)
            IN  /\ DataQueryText(qImpl, [qQuery EXCEPT !.where = where]) = qText
                /\ \A i \in DOMAIN where :
                        where[i].value \in {Str(alt), "%" \o Str(alt) \o "%"}

\* A data query built for two filters with values bound.
C14_Witness ==
    /\ upc = "built"
    /\ Len(qQuery.where) = 2
    /\ qValues[1] # ""
    /\ qValues[2] # qValues[1]

(***************************************************************************)
(* The catalog operations: getTables, the metadata operations and the      *)
(* table a data operation's SQL names, against a server that holds tables  *)
(* and views in schemas (databases for MySQL) with foreign keys between    *)
(* base tables.  Names are sequences of characters.                        *)
(***************************************************************************)
MaxRelations == 3   \* tables and views on the server
MaxFks == 1         \* foreign-key constraints on the server

Public == <<"p","u","b","l","i","c">>
Dbo == <<"d","b","o">>
TestDb == <<"t","e","s","t","d","b">>
Shop == <<"s","h","o","p">>
Crm == <<"c","r","m">>

\* The schema an unqualified name lives in: the connection's database for
\* MySQL, dbo for MSSQL, public for PostgreSQL.
DefaultSchema(a, db) ==
    CASE a = "mysql" -> db
      [] a = "mssql" -> Dbo
      [] OTHER -> Public

\* The user schemas of the server (for MySQL its databases).
SchemaNames(a, db) == {DefaultSchema(a, db), Crm}
RelationNames == { <<"a">>, <<"b">> }
TableTypes == {"BASE TABLE", "VIEW"}
ColumnSets == { {"id"}, {"id", "k"} }

\* ORDINAL_POSITION of a column.
OrdinalPosition(column) == IF column = "id" THEN 1 ELSE 2

\* The relations a server can hold: base tables, and views of the id column.
Relations(a, db) ==
    { r \in [schema : SchemaNames(a, db), name : RelationNames,
             type : TableTypes, columns : ColumnSets] :
        r.type = "VIEW" => r.columns = {"id"} }

\* The subsets of S with at most n elements.
RECURSIVE SubsetsUpTo(_, _)
SubsetsUpTo(S, n) ==
    IF n = 0 THEN {{}}
    ELSE LET smaller == SubsetsUpTo(S, n - 1)
         IN  smaller \cup { p \cup {x} : p \in smaller, x \in S }

\* The catalogs: at most one relation per schema and name.
Catalogs(a, db) ==
    { c \in SubsetsUpTo(Relations(a, db), MaxRelations) :
        /\ \A r1, r2 \in c : r1.schema = r2.schema /\ r1.name = r2.name => r1 = r2 }

\* The single-column foreign keys a catalog admits: from a column of a base
\* table to a column of a base table.
ForeignKeyChoices(c) ==
    { [table_schema |-> r.schema, table_name |-> r.name, column_name |-> col,
       constraint_name |-> "fk",
       foreign_table_schema |-> f.schema, foreign_table_name |-> f.name,
       foreign_column_name |-> fcol] :
        <<r, col, f, fcol>> \in
            { x \in c \X {"id", "k"} \X c \X {"id", "k"} :
                /\ x[1].type = "BASE TABLE" /\ x[3].type = "BASE TABLE"
                /\ x[2] \in x[1].columns /\ x[4] \in x[3].columns } }

\* Constraint names are unique per table (PostgreSQL) or per schema.
ForeignKeySets(a, c) ==
    { ks \in SubsetsUpTo(ForeignKeyChoices(c), MaxFks) :
        /\ \A k1, k2 \in ks :
              /\ k1.constraint_name = k2.constraint_name
              /\ k1.table_schema = k2.table_schema
              /\ a \in {"mysql", "mssql"} \/ k1.table_name = k2.table_name
              => k1 = k2 }

\* The tableName arguments: bare, qualified with the default schema,
\* qualified with the other schema.
NameArguments(a, db) ==
    { <<"a">>, DefaultSchema(a, db) \o <<".", "a">>, Crm \o <<".", "a">> }

InitCatalog ==
    /\ mImpl \in Implementations
    /\ currentDb \in (IF mImpl = "mysql" THEN {TestDb, Shop} ELSE {<<>>})
    /\ catalog \in Catalogs(mImpl, currentDb)
    /\ fkeys \in ForeignKeySets(mImpl, catalog)
    /\ mName \in NameArguments(mImpl, currentDb)
    /\ mAddr = [data |-> {}, metadata |-> {}]
    /\ mOp = "-"
    /\ mOut = <<>>
    /\ cvIdle
    /\ facIdle
    /\ urlIdle
    /\ dbIdle
    /\ sqlIdle
    /\ msIdle
    /\ cfgIdle
    /\ fmtIdle
    /\ pgIdle
    /\ uiIdle

\* The code unit of a character (letters and the space).
CharCode(ch) ==
    IF ch = " " THEN 32
    ELSE IF \E i \in 1 .. 26 : UpperLetters[i] = ch
         THEN 64 + (CHOOSE i \in 1 .. 26 : UpperLetters[i] = ch)
         ELSE 96 + (CHOOSE i \in 1 .. 26 : LowerLetters[i] = ch)

\* x < y for two texts, character by character.
RECURSIVE TextLess(_, _)
TextLess(x, y) ==
    IF y = <<>> THEN FALSE
    ELSE IF x = <<>> THEN TRUE
    ELSE IF Head(x) # Head(y) THEN CharCode(Head(x)) < CharCode(Head(y))
    ELSE TextLess(Tail(x), Tail(y))

TableTypeText(type) ==
    IF type = "VIEW" THEN <<"V","I","E","W">>
    ELSE <<"B","A","S","E"," ","T","A","B","L","E">>

\* ORDER BY table_schema, table_type DESC, table_name: r1 sorts before r2.
OrderedBefore(r1, r2) ==
    \/ TextLess(r1.schema, r2.schema)
    \/ /\ r1.schema = r2.schema
       /\ \/ TextLess(TableTypeText(r2.type), TableTypeText(r1.type))
          \/ r1.type = r2.type /\ TextLess(r1.name, r2.name)

\* The rows of the getTables query, in its order.
TablesQuery(c) ==
    LET n == Cardinality(c)
        rows == CHOOSE f \in [1 .. n -> c] :
                    \A i, j \in 1 .. n : i < j => OrderedBefore(f[i], f[j])
    IN  [i \in 1 .. n |->
            [schema_name |-> rows[i].schema,
             table_name |-> rows[i].name,
             full_table_name |-> rows[i].schema \o <<".">> \o rows[i].name,
             table_type |-> rows[i].type]]

\* s.split(separator): the parts between the separators.
RECURSIVE Split(_, _, _)
Split(s, separator, part) ==
    IF s = <<>> THEN <<part>>
    ELSE IF Head(s) = separator THEN <<part>> \o Split(Tail(s), separator, <<>>)
    ELSE Split(Tail(s), separator, Append(part, Head(s)))

Includes(s, ch) == \E i \in DOMAIN s : s[i] = ch

\* const [schema, table] = tableName.includes(".") ? tableName.split(".", 2)
\*                                                 : [<default>, tableName];
\* the default is null (<<>> here) for MySQL.
SchemaAndTable(a, tableName) ==
    IF Includes(tableName, ".")
    THEN LET parts == Split(tableName, ".", <<>>)
         IN  [schema |-> parts[1], table |-> parts[2]]
    ELSE [schema |-> CASE a = "mysql" -> <<>>
                       [] a = "mssql" -> Dbo
                       [] OTHER -> Public,
          table |-> tableName]

\* The relations a metadata query selects: WHERE table_schema = schema AND
\* table_name = table; MySQL adds the schema condition only if (schema).
MetadataRelations(a, c, tableName) ==
    LET st == SchemaAndTable(a, tableName)
    IN  { r \in c :
            /\ r.name = st.table
            /\ \/ a = "mysql" /\ st.schema = <<>>
               \/ r.schema = st.schema }

\* The relation the server finds for the name a data operation puts in its
\* SQL (FullyQualifiedName): schema.table as written, a bare MySQL name in
\* the connection's database.
DataRelations(a, db, c, tableName) ==
    IF Includes(tableName, ".")
    THEN LET parts == Split(tableName, ".", <<>>)
         IN  { r \in c : Len(parts) = 2 /\ r.schema = parts[1] /\ r.name = parts[2] }
    ELSE { r \in c : r.schema = DefaultSchema(a, db) /\ r.name = tableName }

Keys(rs) == { <<r.schema, r.name>> : r \in rs }

\* getTableColumns: the column names of the selected rows by ordinal position.
GetTableColumnsOf(a, c, tableName) ==
    LET rs == MetadataRelations(a, c, tableName)
        first == Cardinality({ r \in rs : "id" \in r.columns })
        second == Cardinality({ r \in rs : "k" \in r.columns })
    IN  [i \in 1 .. first |-> "id"] \o [i \in 1 .. second |-> "k"]

\* The foreignKeys of getTableIntrospection.  PostgreSQL joins
\* table_constraints, key_column_usage and constraint_column_usage on the
\* constraint name and the constrained table's schema; MySQL reads
\* key_column_usage and reports the schema "testdb"; MSSQL joins the
\* referential constraint to the key columns on both sides.
ForeignKeysOf(a, c, ks, tableName) ==
    LET st == SchemaAndTable(a, tableName)
    IN  CASE a = "mysql" ->
               { [column_name |-> k.column_name,
                  foreign_table_schema |-> TestDb,
                  foreign_table_name |-> k.foreign_table_name,
                  foreign_column_name |-> k.foreign_column_name] :
                   k \in { k \in ks : /\ k.table_name = st.table
                                      /\ st.schema = <<>> \/ k.table_schema = st.schema } }
          [] a = "mssql" ->
               { [column_name |-> k.column_name,
                  foreign_table_schema |-> k.foreign_table_schema,
                  foreign_table_name |-> k.foreign_table_name,
                  foreign_column_name |-> k.foreign_column_name] :
                   k \in { k \in ks : /\ k.table_schema = st.schema
                                      /\ k.table_name = st.table } }
          [] OTHER ->
               { [column_name |-> x[2].column_name,
                  foreign_table_schema |-> x[3].foreign_table_schema,
                  foreign_table_name |-> x[3].foreign_table_name,
                  foreign_column_name |-> x[3].foreign_column_name] :
                   x \in { x \in ks \X ks \X ks :
                             /\ x[1].table_schema = st.schema
                             /\ x[1].table_name = st.table
                             /\ x[2].constraint_name = x[1].constraint_name
                             /\ x[2].table_schema = x[1].table_schema
                             /\ x[3].constraint_name = x[1].constraint_name
                             /\ x[3].foreign_table_schema = x[1].table_schema } }

\* getTables().
GetTables ==
    /\ mOp' = "getTables"
    /\ mOut' = TablesQuery(catalog)
    /\ UNCHANGED <<mImpl, currentDb, catalog, fkeys, mName, mAddr>>
    /\ UNCHANGED othersOfCat

\* getTableData / insertTableRow / updateTableRow / deleteTableRow(mName, ...):
\* the statement names FullyQualifiedName(mName).
DataOperation ==
    /\ mImpl \in Adapters
    /\ \E op \in {"getTableData", "insertTableRow", "updateTableRow", "deleteTableRow"} :
            mOp' = op
    /\ mOut' = FullyQualifiedName(mImpl, mName)
    /\ mAddr' = [mAddr EXCEPT !.data = Keys(DataRelations(mImpl, currentDb, catalog, mName))]
    /\ UNCHANGED <<mImpl, currentDb, catalog, fkeys, mName>>
    /\ UNCHANGED othersOfCat

\* getTableColumns(mName).
GetTableColumns ==
    /\ mOp' = "getTableColumns"
    /\ mOut' = GetTableColumnsOf(mImpl, catalog, mName)
    /\ mAddr' = [mAddr EXCEPT !.metadata = Keys(MetadataRelations(mImpl, catalog, mName))]
    /\ UNCHANGED <<mImpl, currentDb, catalog, fkeys, mName>>
    /\ UNCHANGED othersOfCat

\* getTableType(mName): the type of the first selected row, or null.
GetTableType ==
    /\ mOp' = "getTableType"
    /\ LET rs == MetadataRelations(mImpl, catalog, mName)
       IN  /\ mOut' \in (IF rs = {} THEN {"null"} ELSE { r.type : r \in rs })
           /\ mAddr' = [mAddr EXCEPT !.metadata = Keys(rs)]
    /\ UNCHANGED <<mImpl, currentDb, catalog, fkeys, mName>>
    /\ UNCHANGED othersOfCat

\* getTableIntrospection(mName).
GetTableIntrospection ==
    /\ mOp' = "getTableIntrospection"
    /\ mOut' = [columns |-> GetTableColumnsOf(mImpl, catalog, mName),
                foreignKeys |-> ForeignKeysOf(mImpl, catalog, fkeys, mName)]
    /\ mAddr' = [mAddr EXCEPT !.metadata = Keys(MetadataRelations(mImpl, catalog, mName))]
    /\ UNCHANGED <<mImpl, currentDb, catalog, fkeys, mName>>
    /\ UNCHANGED othersOfCat

NextCatalog ==
    \/ GetTables
    \/ DataOperation
    \/ GetTableColumns
    \/ GetTableType
    \/ GetTableIntrospection

SpecCatalog == InitCatalog /\ [][NextCatalog]_vars

\* C15: getTables returns its entries ordered by schema name, then, within
\* one schema, base tables before views, then by table name.
C15_TablesBeforeViews ==
    mOp = "getTables" =>
        \A i, j \in DOMAIN mOut :
            i < j =>
                \/ TextLess(mOut[i].schema_name, mOut[j].schema_name)
                \/ /\ mOut[i].schema_name = mOut[j].schema_name
                   /\ \/ mOut[i].table_type = "BASE TABLE" /\ mOut[j].table_type = "VIEW"
                      \/ /\ mOut[i].table_type = mOut[j].table_type
                         /\ TextLess(mOut[i].table_name, mOut[j].table_name)

(***************************************************************************)
(* Connection handling of the adapter operations (specification Spec).     *)
(***************************************************************************)
\* The client is between its first statement and its settlement.
InStatement(c) ==
    pc[c] \in {"count", "data", "types", "insert", "update", "select", "delete", "query"}

\* The clients that hold a checked-out connection.
Holders == { c \in Clients : call[c].client /\ pc[c] \notin {"idle", "done"} }

\* C16 as stated: in the PostgreSQL and MySQL adapters every operation runs
\* its statements on a connection checked out of a pool and releases it
\* exactly once, on success and on failure, so that nothing stays checked out.
C16_CheckoutPerOperation ==
    adapter \in {"postgresql", "mysql"} =>
        /\ \A c \in Clients : InStatement(c) => call[c].client
        /\ checkedOut = Cardinality(Holders)

\* C16: the PostgreSQL adapter (and lib/db.ts) runs every operation's
\* statements on a client checked out of the pool and releases it exactly
\* once when the operation settles, by return or by throw; the MySQL adapter
\* runs its statements on its one connection and never checks anything out.
\* After completed operations no connection is checked out.
C16_PgReleasesOnceMysqlNoPool ==
    /\ UsesPgPool(adapter) =>
          /\ \A c \in Clients : InStatement(c) => call[c].client
          /\ checkedOut = Cardinality(Holders)
    /\ ~UsesPgPool(adapter) =>
          /\ \A c \in Clients : ~call[c].client
          /\ checkedOut = 0

\* A PostgreSQL operation that checked a client out has thrown, and the
\* client is back in the pool.
C16_Witness ==
    /\ adapter = "postgresql"
    /\ pc["c1"] = "done"
    /\ call["c1"].client
    /\ res["c1"].kind = "throw"
    /\ checkedOut = 0

\* A MySQL operation is running a statement with nothing checked out.
C16_MysqlNoCheckout ==
    /\ adapter = "mysql"
    /\ InStatement("c1")
    /\ ~call["c1"].client

(***************************************************************************)
(* One MSSQLConnection used by concurrent operations.  An operation runs   *)
(* ensureConnected() up to its await in the turn that calls it; the pool   *)
(* connects, and closes, in later turns.                                   *)
(***************************************************************************)
MaxStarts == 3      \* pool.connect() calls between two closes

MsCallers == {"m1", "m2", "m3"}

InitMssql ==
    /\ msPool = "closed"
    /\ msPc = [c \in MsCallers |-> "idle"]
    /\ msStarted = 0
    /\ cvIdle
    /\ facIdle
    /\ urlIdle
    /\ dbIdle
    /\ sqlIdle
    /\ catIdle
    /\ cfgIdle
    /\ fmtIdle
    /\ pgIdle
    /\ uiIdle

\* An operation begins: await this.ensureConnected().  pool.connected is
\* true only once the pool has connected; otherwise pool.connect() is
\* called.  On a pool that is already connecting the driver either rejects
\* the call or settles it with the connect in progress.
StartOperation(c) ==
    /\ msPc[c] = "idle"
    /\ IF msPool = "connected"
       THEN /\ msPc' = [msPc EXCEPT ![c] = "query"]
            /\ UNCHANGED <<msPool, msStarted>>
       ELSE /\ msStarted < MaxStarts
            /\ msStarted' = msStarted + 1
            /\ msPool' = "connecting"
            /\ IF msPool = "closed"
               THEN msPc' = [msPc EXCEPT ![c] = "awaiting"]
               ELSE \E next \in {"awaiting", "thrown"} :
                        msPc' = [msPc EXCEPT ![c] = next]
    /\ UNCHANGED othersOfMs

\* The pool has connected: the awaited connect() calls resolve.
PoolConnected ==
    /\ msPool = "connecting"
    /\ msPool' = "connected"
    /\ msPc' = [c \in MsCallers |-> IF msPc[c] = "awaiting" THEN "query" ELSE msPc[c]]
    /\ UNCHANGED msStarted
    /\ UNCHANGED othersOfMs

\* The pool could not connect: the awaited connect() calls reject.
PoolConnectFailed ==
    /\ msPool = "connecting"
    /\ msPool' = "closed"
    /\ msStarted' = 0
    /\ msPc' = [c \in MsCallers |-> IF msPc[c] = "awaiting" THEN "thrown" ELSE msPc[c]]
    /\ UNCHANGED othersOfMs

\* The operation's statement runs on the pool.
PoolRequest(c) ==
    /\ msPc[c] = "query"
    /\ msPc' = [msPc EXCEPT ![c] = IF msPool = "connected" THEN "returned" ELSE "thrown"]
    /\ UNCHANGED <<msPool, msStarted>>
    /\ UNCHANGED othersOfMs

\* The caller has its outcome.
Settle(c) ==
    /\ msPc[c] \in {"returned", "thrown"}
    /\ msPc' = [msPc EXCEPT ![c] = "idle"]
    /\ UNCHANGED <<msPool, msStarted>>
    /\ UNCHANGED othersOfMs

\* disconnect(): if (this.pool.connected) await this.pool.close().
Disconnect(c) ==
    /\ msPc[c] = "idle"
    /\ msPool = "connected"
    /\ msPool' = "closed"
    /\ msStarted' = 0
    /\ UNCHANGED msPc
    /\ UNCHANGED othersOfMs

NextMssql ==
    \/ \E c \in MsCallers : StartOperation(c)
    \/ PoolConnected
    \/ PoolConnectFailed
    \/ \E c \in MsCallers : PoolRequest(c)
    \/ \E c \in MsCallers : Settle(c)
    \/ \E c \in MsCallers : Disconnect(c)

SpecMssql == InitMssql /\ [][NextMssql]_vars

\* C17: under any interleaving of concurrent operations on one
\* MSSQLConnection, pool.connect() is started at most once while the pool is
\* connecting or connected.
C17_ConnectStartedOnce ==
    msPool \in {"connecting", "connected"} => msStarted <= 1

(***************************************************************************)
(* Introspection and table addressing (specification SpecCatalog).         *)
(***************************************************************************)
\* C18: for every foreign key returned by getTableIntrospection(t),
\* foreign_column_name is one of the columns getTableColumns returns for the
\* table named by foreign_table_schema and foreign_table_name.
C18_ForeignColumnExists ==
    mOp = "getTableIntrospection" =>
        \A fk \in mOut.foreignKeys :
            LET columns == GetTableColumnsOf(mImpl, catalog,
                               fk.foreign_table_schema \o <<".">> \o fk.foreign_table_name)
            IN  \E i \in DOMAIN columns : columns[i] = fk.foreign_column_name

\* C19: for any table name, the data operations and the metadata operations
\* of an adapter address the same schema and table.
C19_SameRelationAddressed ==
    /\ mOp \in {"getTableData", "insertTableRow", "updateTableRow", "deleteTableRow"} =>
          mAddr.data = Keys(MetadataRelations(mImpl, catalog, mName))
    /\ mOp \in {"getTableColumns", "getTableType", "getTableIntrospection"} /\ mImpl \in Adapters =>
          mAddr.metadata = Keys(DataRelations(mImpl, currentDb, catalog, mName))

(***************************************************************************)
(* createDatabaseConfig over process.env.  A variable is unset, empty or   *)
(* set; a set variable holds a text of its own, so that a setting taken    *)
(* from another engine's variable shows.                                   *)
(***************************************************************************)
Unset == "<unset>"

\* The values process.env can hold.
Environments ==
    [POSTGRES_HOST : {Unset, "", "pg.host"},
     POSTGRES_PORT : {Unset, "", "11"},
     POSTGRES_DB : {Unset, "pgdb"},
     POSTGRES_USER : {Unset, "pguser"},
     POSTGRES_PASSWORD : {Unset, "pgpw"},
     MSSQL_HOST : {Unset, "", "ms.host"},
     MSSQL_PORT : {Unset, "", "22"},
     MSSQL_DB : {Unset, "msdb"},
     MSSQL_USER : {Unset, "msuser"},
     MSSQL_PASSWORD : {Unset, "mspw"},
     MYSQL_HOST : {Unset, "", "my.host"},
     MYSQL_PORT : {Unset, "", "33"},
     MYSQL_DB : {Unset, "mydb"},
     MYSQL_USER : {Unset, "myuser"},
     MYSQL_PASSWORD : {Unset, "mypw"}]

InitConfig ==
    /\ cfgEnv \in Environments
    /\ cfgOut = <<>>
    /\ cvIdle
    /\ facIdle
    /\ urlIdle
    /\ dbIdle
    /\ sqlIdle
    /\ catIdle
    /\ msIdle
    /\ fmtIdle
    /\ pgIdle
    /\ uiIdle

\* The truthiness of process.env.X: undefined and "" are falsy.
Truthy(v) == v # Unset /\ v # ""

\* v || d.
OrElse(v, d) == IF Truthy(v) THEN v ELSE d

\* parseInt of a port text.
ParseInt(s) ==
    CASE s = "5432" -> 5432
      [] s = "1433" -> 1433
      [] s = "3306" -> 3306
      [] OTHER -> NumeralValue(s)

\* MYSQL_HOST tested first.
DbTypeMysqlFirst(e) ==
    IF Truthy(e.MYSQL_HOST) THEN "mysql"
    ELSE IF Truthy(e.MSSQL_HOST) THEN "mssql"
    ELSE "postgresql"

\* const dbType = process.env.POSTGRES_HOST ? "postgresql" : ... : "postgresql".
DbType(e) ==
    IF Truthy(e.POSTGRES_HOST) THEN "postgresql"
    ELSE IF Truthy(e.MSSQL_HOST) THEN "mssql"
    ELSE IF Truthy(e.MYSQL_HOST) THEN "mysql"
    ELSE "postgresql"

\* switch (dbType): the DatabaseConfig of the engine.
DatabaseConfig(e) ==
    CASE DbType(e) = "postgresql" ->
            [type |-> "postgresql",
             host |-> OrElse(e.POSTGRES_HOST, "localhost"),
             port |-> ParseInt(OrElse(e.POSTGRES_PORT, "5432")),
             database |-> OrElse(e.POSTGRES_DB, ""),
             username |-> OrElse(e.POSTGRES_USER, ""),
             password |-> OrElse(e.POSTGRES_PASSWORD, "")]
      [] DbType(e) = "mssql" ->
            [type |-> "mssql",
             host |-> OrElse(e.MSSQL_HOST, "localhost"),
             port |-> ParseInt(OrElse(e.MSSQL_PORT, "1433")),
             database |-> OrElse(e.MSSQL_DB, ""),
             username |-> OrElse(e.MSSQL_USER, ""),
             password |-> OrElse(e.MSSQL_PASSWORD, "")]
      [] DbType(e) = "mysql" ->
            [type |-> "mysql",
             host |-> OrElse(e.MYSQL_HOST, "localhost"),
             port |-> ParseInt(OrElse(e.MYSQL_PORT, "3306")),
             database |-> OrElse(e.MYSQL_DB, ""),
             username |-> OrElse(e.MYSQL_USER, ""),
             password |-> OrElse(e.MYSQL_PASSWORD, "")]

\* createDatabaseConfig().
CreateDatabaseConfig ==
    /\ cfgOut = <<>>
    /\ cfgOut' = DatabaseConfig(cfgEnv)
    /\ UNCHANGED cfgEnv
    /\ UNCHANGED othersOfCfg

NextConfig == CreateDatabaseConfig

SpecConfig == InitConfig /\ [][NextConfig]_vars

\* The variables of an engine, and the engines after it in the order
\* POSTGRES_HOST, MSSQL_HOST, MYSQL_HOST.
VariablesOf(type) ==
    CASE type = "postgresql" ->
            {"POSTGRES_HOST", "POSTGRES_PORT", "POSTGRES_DB", "POSTGRES_USER", "POSTGRES_PASSWORD"}
      [] type = "mssql" ->
            {"MSSQL_HOST", "MSSQL_PORT", "MSSQL_DB", "MSSQL_USER", "MSSQL_PASSWORD"}
      [] type = "mysql" ->
            {"MYSQL_HOST", "MYSQL_PORT", "MYSQL_DB", "MYSQL_USER", "MYSQL_PASSWORD"}

LaterEngines(type) ==
    CASE type = "postgresql" -> {"mssql", "mysql"}
      [] type = "mssql" -> {"mysql"}
      [] type = "mysql" -> {}

\* The environment without the variables of the engines after type.
WithoutLater(e, type) ==
    [n \in DOMAIN e |->
        IF \E later \in LaterEngines(type) : n \in VariablesOf(later) THEN Unset ELSE e[n]]

\* The first engine whose host variable satisfies Has, PostgreSQL if none.
FirstEngine(e, Has(_)) ==
    IF Has(e.POSTGRES_HOST) THEN "postgresql"
    ELSE IF Has(e.MSSQL_HOST) THEN "mssql"
    ELSE IF Has(e.MYSQL_HOST) THEN "mysql"
    ELSE "postgresql"

Present(v) == v # Unset
NonEmpty(v) == v # Unset /\ v # ""

\* C20 as stated: the engine is the first whose host variable is present
\* (POSTGRES_HOST, MSSQL_HOST, MYSQL_HOST; PostgreSQL when none is), and the
\* variables of later engines change neither the engine nor its settings.
C20_FirstPresentHost ==
    cfgOut # <<>> =>
        LET selected == FirstEngine(cfgEnv, Present)
        IN  /\ cfgOut.type = selected
            /\ cfgOut = DatabaseConfig(WithoutLater(cfgEnv, selected))

\* C20: the engine is the first whose host variable is set to a non-empty
\* value, in the order POSTGRES_HOST, MSSQL_HOST, MYSQL_HOST, and PostgreSQL
\* when none is; every setting comes from that engine's own variables, and
\* the variables of the engines after it change neither engine nor settings.
C20_FirstNonEmptyHost ==
    cfgOut # <<>> =>
        LET selected == FirstEngine(cfgEnv, NonEmpty)
        IN  /\ cfgOut.type = selected
            /\ cfgOut = DatabaseConfig(WithoutLater(cfgEnv, selected))
            /\ \A later \in LaterEngines(selected) :
                  \A n \in VariablesOf(later) :
                      cfgEnv[n] \notin {cfgOut.host, cfgOut.database,
                                        cfgOut.username, cfgOut.password} \ {""}

\* A configuration built with the host variables of two engines set, and
\* the later engine's settings set as well.
C20_Witness ==
    /\ cfgOut # <<>>
    /\ cfgEnv.POSTGRES_HOST = ""
    /\ cfgEnv.MSSQL_HOST = "ms.host"
    /\ cfgEnv.MYSQL_HOST = "my.host"
    /\ cfgEnv.MYSQL_PORT = "33"
    /\ cfgEnv.MYSQL_DB = "mydb"
    /\ cfgOut.type = "mssql"

(***************************************************************************)
(* formatSchemaForAI.  The text is kept line by line: every line of the    *)
(* sequence stands for its characters followed by a newline.               *)
(***************************************************************************)
MaxTables == 2      \* entries of the TableSchema[] handed in
MaxColumns == 2     \* columns of one entry

\* column_default === null.
NullDefault == "<null>"

ColumnInfos ==
    [column_name : {"id", "k"}, data_type : {"integer"},
     is_nullable : {"YES", "NO"}, column_default : {NullDefault, "", "0"}]

\* The column lists of an entry: columns of different names.
ColumnLists ==
    { cs \in UNION {[1 .. n -> ColumnInfos] : n \in 0 .. MaxColumns} :
        \A i, j \in DOMAIN cs : i # j => cs[i].column_name # cs[j].column_name }

SchemaTableNames == {"a", "b"}

TableSchemas ==
    [schema_name : {"public"}, table_name : SchemaTableNames,
     table_type : {"BASE TABLE", "VIEW"}, columns : ColumnLists]

\* The lists handed in: entries of different tables, in any order.
\* (No list of different tables is longer than the number of table names.)
RECURSIVE SchemaListsUpTo(_)
SchemaListsUpTo(n) ==
    IF n = 0 THEN {<<>>}
    ELSE IF n > Cardinality(SchemaTableNames) THEN SchemaListsUpTo(n - 1)
    ELSE LET shorter == SchemaListsUpTo(n - 1)
         IN  shorter \cup
             { Append(pair[1], pair[2]) : pair \in
                 { pr \in shorter \X TableSchemas :
                     \A i \in DOMAIN pr[1] :
                         pr[1][i].table_name # pr[2].table_name } }

SchemaLists == SchemaListsUpTo(MaxTables)

InitFormat ==
    /\ fmtSchemas \in SchemaLists
    /\ fmtText = <<>>
    /\ cvIdle
    /\ facIdle
    /\ urlIdle
    /\ dbIdle
    /\ sqlIdle
    /\ catIdle
    /\ msIdle
    /\ cfgIdle
    /\ pgIdle
    /\ uiIdle

\* Every entry labelled TABLE.
tableTypeAlwaysTable(entry) == "TABLE"

\* const tableType = table.table_type === "VIEW" ? "VIEW" : "TABLE".
tableType(entry) == IF entry.table_type = "VIEW" THEN "VIEW" ELSE "TABLE"

\* The line of one column.
ColumnLine(column) ==
    LET nullable == IF column.is_nullable = "YES" THEN "NULL" ELSE "NOT NULL"
        defaultVal == IF column.column_default \notin {NullDefault, ""}
                      THEN " DEFAULT " \o column.column_default
                      ELSE ""
    IN  "  - " \o column.column_name \o ": " \o column.data_type \o defaultVal
            \o " (" \o nullable \o ")"

\* The lines of one entry: header, "Columns:", the columns, an empty line.
TableLines(entry) ==
    <<tableType(entry) \o ": " \o entry.schema_name \o "." \o entry.table_name,
      "Columns:">>
    \o [k \in 1 .. Len(entry.columns) |-> ColumnLine(entry.columns[k])]
    \o <<"">>

RECURSIVE SchemaText(_)
SchemaText(schemas) ==
    IF schemas = <<>> THEN <<"Database Schema Information:", "">>
    ELSE SchemaText(SubSeq(schemas, 1, Len(schemas) - 1))
            \o TableLines(schemas[Len(schemas)])

\* formatSchemaForAI(fmtSchemas).
FormatSchemaForAI ==
    /\ fmtText = <<>>
    /\ fmtText' = SchemaText(fmtSchemas)
    /\ UNCHANGED fmtSchemas
    /\ UNCHANGED othersOfFmt

NextFormat == FormatSchemaForAI

SpecFormat == InitFormat /\ [][NextFormat]_vars

\* The lines before entry i of the input, counting n lines around the
\* columns of each entry.
RECURSIVE LinesBefore(_, _, _)
LinesBefore(schemas, i, n) ==
    IF i = 1 THEN 0
    ELSE LinesBefore(schemas, i - 1, n) + Len(schemas[i - 1].columns) + n

HeaderOf(t) ==
    (IF t.table_type = "VIEW" THEN "VIEW: " ELSE "TABLE: ")
        \o t.schema_name \o "." \o t.table_name

\* C21 as stated: for each table a header line "TABLE: schema.name" (VIEW
\* exactly for views), followed by exactly one line per column, in input
\* order, of the form "  - name: data_type[ DEFAULT x](NULLABLE|NOT NULL)".
C21_HeaderThenColumnLines ==
    fmtText # <<>> =>
        \A i \in DOMAIN fmtSchemas :
            \E h \in DOMAIN fmtText :
                /\ fmtText[h] = HeaderOf(fmtSchemas[i])
                /\ \A k \in DOMAIN fmtSchemas[i].columns :
                      LET c == fmtSchemas[i].columns[k]
                          stem == "  - " \o c.column_name \o ": " \o c.data_type
                                    \o (IF c.column_default \notin {NullDefault, ""}
                                        THEN " DEFAULT " \o c.column_default ELSE "")
                          word == IF c.is_nullable = "YES" THEN "NULLABLE" ELSE "NOT NULL"
                      IN  /\ h + k \in DOMAIN fmtText
                          /\ fmtText[h + k] \in
                                { stem \o word, stem \o "(" \o word \o ")",
                                  stem \o " " \o word, stem \o " (" \o word \o ")" }

\* C21: the text is the title line "Database Schema Information:" and an
\* empty line, then for each table in input order a header line
\* "TABLE: schema.name" ("VIEW: schema.name" exactly when table_type is VIEW),
\* the line "Columns:", one line per column in input order of the form
\* "  - name: data_type[ DEFAULT x] (NULL)" or "... (NOT NULL)", where the
\* DEFAULT part stands exactly for a non-empty column_default and (NULL)
\* exactly for is_nullable = YES, and an empty line; nothing else, and the
\* text is a function of the input list.
C21_TitleHeaderColumnsLines ==
    fmtText # <<>> =>
        /\ fmtText[1] = "Database Schema Information:"
        /\ fmtText[2] = ""
        /\ Len(fmtText) = 2 + LinesBefore(fmtSchemas, Len(fmtSchemas) + 1, 3)
        /\ \A i \in DOMAIN fmtSchemas :
              LET h == 3 + LinesBefore(fmtSchemas, i, 3)
                  t == fmtSchemas[i]
              IN  /\ fmtText[h] = HeaderOf(t)
                  /\ fmtText[h + 1] = "Columns:"
                  /\ fmtText[h + 2 + Len(t.columns)] = ""
                  /\ \A k \in DOMAIN t.columns :
                        LET c == t.columns[k]
                        IN  fmtText[h + 1 + k] =
                                "  - " \o c.column_name \o ": " \o c.data_type
                                \o (IF c.column_default \in {NullDefault, ""} THEN ""
                                    ELSE " DEFAULT " \o c.column_default)
                                \o (IF c.is_nullable = "YES" THEN " (NULL)" ELSE " (NOT NULL)")

\* A view after a table, the table with a nullable column carrying a default
\* and a second column, formatted.
C21_Witness ==
    /\ Len(fmtText) > 2
    /\ Len(fmtSchemas) = 2
    /\ fmtSchemas[1].table_type = "BASE TABLE"
    /\ fmtSchemas[2].table_type = "VIEW"
    /\ Len(fmtSchemas[1].columns) = 2
    /\ fmtSchemas[1].columns[1].is_nullable = "YES"
    /\ fmtSchemas[1].columns[1].column_default = "0"

(***************************************************************************)
(* The pages of one listing: getTableData called for several page numbers  *)
(* with the same filters, sorts and pageSize while the table stays as it   *)
(* is.  Each call runs its own data query, and the engine produces the     *)
(* rows of each statement in any order its ORDER BY clause allows.         *)
(***************************************************************************)
MaxRows == 3        \* rows of the table

PagingRows ==
    { [id |-> k, name |-> JSStr("X"), age |-> JSNum(a)] : k \in 1 .. MaxRows, a \in {"30", "35"} }

\* The tables: ids are unique.
PagingTables ==
    { t \in SUBSET PagingRows : \A r1, r2 \in t : r1.id = r2.id => r1 = r2 }

PagingFilters == { <<>>, <<[column |-> "age", operator |-> "=", value |-> "30"]>> }

PagingSorts ==
    { <<>>, <<[column |-> "id", direction |-> "desc"]>>, <<[column |-> "age", direction |-> "asc"]>> }

InitPages ==
    /\ pgTable \in PagingTables
    /\ pgArgs \in [impl : Implementations, filters : PagingFilters,
                   sorts : PagingSorts, pageSize : 1 .. MaxPageSize]
    /\ pgRows = <<>>
    /\ cvIdle
    /\ facIdle
    /\ urlIdle
    /\ dbIdle
    /\ sqlIdle
    /\ catIdle
    /\ msIdle
    /\ cfgIdle
    /\ fmtIdle
    /\ uiIdle

\* totalPages of the listing.
PagingTotalPages ==
    MathCeilDiv(Cardinality(Matching(pgTable, pgArgs.filters)), pgArgs.pageSize)

\* getTableData(t, page, pageSize, filters, sorts): the rows of the result.
FetchPage ==
    /\ \E page \in 1 .. PagingTotalPages :
        \E seq \in Orderings(Matching(pgTable, pgArgs.filters), pgArgs.sorts) :
            pgRows' = (page :> ReturnedRows(pgArgs.impl,
                                  LimitOffset(seq, pgArgs.pageSize,
                                              (page - 1) * pgArgs.pageSize)))
                      @@ pgRows
    /\ UNCHANGED <<pgTable, pgArgs>>
    /\ UNCHANGED othersOfPg

NextPages == FetchPage

SpecPages == InitPages /\ [][NextPages]_vars

\* C22: for a fixed table state, filters, sorts and pageSize, the results
\* for two different page numbers have no row in common, and pages
\* 1..totalPages together contain every matching row exactly once.
C22_PagesPartitionRows ==
    /\ \A p, q \in DOMAIN pgRows :
          p # q => \A i \in DOMAIN pgRows[p], j \in DOMAIN pgRows[q] :
                        pgRows[p][i] # pgRows[q][j]
    /\ DOMAIN pgRows = 1 .. PagingTotalPages =>
          \A r \in Matching(pgTable, pgArgs.filters) :
              Cardinality({ <<p, i>> \in (DOMAIN pgRows) \X (1 .. MaxPageSize) :
                              /\ i \in DOMAIN pgRows[p]
                              /\ pgRows[p][i] = ReturnedRows(pgArgs.impl, <<r>>)[1] }) = 1

(***************************************************************************)
(* Operators and LIKE values of the data query (specification SpecQuery).  *)
(***************************************************************************)
\* C23: for any operator string supplied in a filter, the operator token
\* that getTableData puts into the WHERE clause is one of
\* = != > < >= <= LIKE NOT LIKE.
C23_OperatorTokens ==
    upc = "built" =>
        \A i \in DOMAIN qQuery.where :
            qQuery.where[i].operator \in {"=", "!=", ">", "<", ">=", "<=", "LIKE", "NOT LIKE"}

\* C24: for a LIKE or NOT LIKE filter the parameter bound to the query is
\* exactly the filter's value (the text after the first colon of the
\* filters[...] entry): no wildcard is added.
C24_LikeValueAsIs ==
    upc = "built" =>
        LET entries == FromRecord(ToRecord(urlParams))
            supplied == IF qImpl = "db.ts"
                        THEN { Str(JoinColon(Tail(SplitColon(entries[j].value, <<>>)))) :
                                 j \in { j \in DOMAIN entries :
                                           MatchBracket(FiltersPrefix, entries[j].key) # <<>> } }
                        ELSE { Str(parsedFilters[j].value) : j \in DOMAIN parsedFilters }
        IN  \A i \in DOMAIN qQuery.where :
                qQuery.where[i].operator \in {"LIKE", "NOT LIKE"} =>
                    qValues[i] \in supplied

C26_FailureMeansNotApplied ==
    [][\A c \in Clients :
          (pc[c] = "query" /\ pc'[c] = "done" /\ res'[c].success = FALSE)
              => table' = table]_vars

\* C27: if insertTableRow, updateTableRow or deleteTableRow throws, the table
\* contents are unchanged: the table is as it was when the operation was
\* called (one client, so nothing else writes in between).
C27_ThrownWriteLeavesTable ==
    \A c \in SequentialClients :
        (call[c].op \in {"insertTableRow", "updateTableRow", "deleteTableRow"}
            /\ pc[c] = "done" /\ res[c].kind = "throw")
            => table = call[c].before

\* updateTableRow called with one fixed change (the name becomes "Y").
CallUpdateName(c) ==
    /\ pc[c] = "idle"
    /\ \E pk \in PkChoices :
            call' = [call EXCEPT ![c] =
                        [NoCall EXCEPT !.op = "updateTableRow", !.pk = pk,
                                       !.data = [name |-> JSStr("Y")],
                                       !.before = table]]
    /\ pc' = [pc EXCEPT ![c] = FirstStep(adapter, "updateTableRow")]
    /\ UNCHANGED <<adapter, dbUp, connOpen, checkedOut, table, nextId, res, deletedPks>>
    /\ UNCHANGED othersOfDb

\* Two requests at a time on one connection object: the write operations of
\* two clients, their statements interleaved at every await.
NextConcurrent ==
    \/ \E c \in Clients : CallInsertTableRow(c)
    \/ \E c \in Clients : CallUpdateName(c)
    \/ \E c \in Clients : CallDeleteTableRow(c)
    \/ \E c \in Clients : PoolConnect(c)
    \/ \E c \in Clients : EnsureConnected(c)
    \/ \E c \in Clients : ColumnTypes(c)
    \/ \E c \in Clients : InsertStmt(c)
    \/ \E c \in Clients : UpdateStmt(c)
    \/ \E c \in Clients : SelectStmt(c)
    \/ \E c \in Clients : DeleteStmt(c)
    \/ \E c \in Clients : Return(c)

SpecConcurrent == InitDb /\ [][NextConcurrent]_vars

\* The client c holds the outcome of a deleteTableRow that returned a row.
ReturnedDeletedRow(c) ==
    /\ call[c].op = "deleteTableRow"
    /\ pc[c] = "done"
    /\ res[c].kind = "return"
    /\ res[c].rows # <<>>

\* C28: under any interleaving of concurrent mutations on one primary key a
\* row deletion is reported once: of two concurrent deleteTableRow calls for
\* the same row at most one returns the row, and the row a call returns is
\* the row state its own DELETE statement removed.
C28_DeletionReportedOnce ==
    /\ \A c, d \in Clients :
          (c # d /\ ReturnedDeletedRow(c) /\ ReturnedDeletedRow(d))
              => call[c].pk # call[d].pk
    /\ \A c \in Clients :
          ReturnedDeletedRow(c)
              => \E r \in call[c].removed : res[c].rows = ReturnedRows(adapter, <<r>>)

\* C29: no caller of getDatabaseConnection is handed a connection on which
\* disconnect has already been started: whenever a call resolves, the
\* connection it resolves with is not one closeDatabaseConnection has begun
\* to disconnect.
C29_NeverHandedClosingConnection ==
    [][\A c \in Callers :
          (fpc[c] \in {"idle", "creating"} /\ fpc'[c] = "got")
              => fgot'[c] \notin closing]_vars

(***************************************************************************)
(* SpecSqlPage: the SQL page (SQLQueryClient).  Queries are numbered in    *)
(* the order of their submission; result is 0 for null, q for the response *)
(* of query q and -q for the result runQuery builds when the fetch of      *)
(* query q fails.  Each runQuery runs to its await; the responses arrive   *)
(* in any order.                                                           *)
(***************************************************************************)
MaxQueries == 4
MaxResultPages == 2

InitSqlPage ==
    /\ isRunning = FALSE
    /\ result = 0
    /\ currentPage = 1
    /\ inflight = {}
    /\ submitted = 0
    /\ cvIdle
    /\ facIdle
    /\ urlIdle
    /\ dbIdle
    /\ sqlIdle
    /\ catIdle
    /\ msIdle
    /\ cfgIdle
    /\ fmtIdle
    /\ pgIdle

\* runQuery(query) up to its await: nothing for a blank query, otherwise
\* setIsRunning(true); setResult(null); setCurrentPage(1); fetch(...).
runQuery(blank) ==
    IF blank
    THEN UNCHANGED uiVars
    ELSE /\ submitted < MaxQueries
         /\ isRunning' = TRUE
         /\ result' = 0
         /\ currentPage' = 1
         /\ submitted' = submitted + 1
         /\ inflight' = inflight \cup {submitted + 1}

\* The Run button: disabled while isRunning or while the editor is blank.
ClickRun ==
    /\ ~isRunning
    /\ runQuery(FALSE)
    /\ UNCHANGED othersOfUi

\* The editor action bound to Cmd/Ctrl+Enter: runQuery(editor.getValue()).
PressShortcut ==
    /\ \E blank \in BOOLEAN : runQuery(blank)
    /\ UNCHANGED othersOfUi

\* The fetch of query q resolves: setResult(data); finally setIsRunning(false).
Respond(q) ==
    /\ q \in inflight
    /\ inflight' = inflight \ {q}
    /\ result' = q
    /\ isRunning' = FALSE
    /\ UNCHANGED <<currentPage, submitted>>
    /\ UNCHANGED othersOfUi

\* The fetch of query q rejects: the catch sets the failure result; finally
\* setIsRunning(false).
FetchFails(q) ==
    /\ q \in inflight
    /\ inflight' = inflight \ {q}
    /\ result' = -q
    /\ isRunning' = FALSE
    /\ UNCHANGED <<currentPage, submitted>>
    /\ UNCHANGED othersOfUi

\* handlePageChange(page) of the pagination under a displayed result.
HandlePageChange ==
    /\ result # 0
    /\ \E page \in 1 .. MaxResultPages : currentPage' = page
    /\ UNCHANGED <<isRunning, result, inflight, submitted>>
    /\ UNCHANGED othersOfUi

NextSqlPage ==
    \/ ClickRun
    \/ PressShortcut
    \/ \E q \in 1 .. MaxQueries : Respond(q)
    \/ \E q \in 1 .. MaxQueries : FetchFails(q)
    \/ HandlePageChange

SpecSqlPage == InitSqlPage /\ [][NextSqlPage]_vars

\* The query whose outcome a displayed result is.
QueryOf(r) == IF r < 0 THEN -r ELSE r

\* C30: in the SQL page, after any interleaving of submissions (Run button or
\* Cmd/Ctrl+Enter) and responses, a displayed result is the one of the most
\* recently submitted query, and isRunning is true as long as a submitted
\* query has not been answered.
C30_LatestResultAndRunning ==
    /\ result # 0 => QueryOf(result) = submitted
    /\ inflight # {} => isRunning

====
